---- MODULE Spec2Model ----
(***************************************************************************)
(* Agent session runtime of openwork: the per-thread checkpointer cache    *)
(* (getCheckpointer / closeCheckpointer / closeRuntime), session creation  *)
(* (createAgentRuntime, getModelInstance), the per-thread store file      *)
(* (deleteThreadCheckpoint), the credential and model handlers             *)
(* (models:setApiKey, models:setDefault, ...), the MCP tool pool           *)
(* (initMCP / closeMCP) and the workspace handlers (workspace:get,         *)
(* workspace:set, workspace:select, workspace:loadFromDisk,                *)
(* workspace:readFile, workspace:readBinaryFile).                          *)
(*                                                                         *)
(* The program runs on one JavaScript event loop: a call of an async       *)
(* function runs synchronously up to its first await on real I/O, and its  *)
(* continuation runs, again synchronously, once that I/O has completed.    *)
(* Each such synchronous stretch is one action.                            *)
(***************************************************************************)
EXTENDS Naturals, Sequences, FiniteSets, TLC

-----------------------------------------------------------------------------
(* Bounds of the model *)

\* number of calls (of any exported operation) made in one behaviour
MaxCalls == 3

\* number of SqlJsSaver objects constructed in one behaviour
MaxHandles == 3

\* number of MultiServerMCPClient objects constructed in one behaviour
MaxClients == 2

\* number of calls made in one behaviour of the workspace handlers
MaxFileCalls == 2

-----------------------------------------------------------------------------
(* Values *)

\* JavaScript's undefined and null, kept apart from every string (also from "")
Undefined == "<undefined>"
Null == "<null>"

\* thread ids that name a thread
Threads == {"t1", "t2"}

\* thread ids a caller may pass to createAgentRuntime ("" is the empty id)
ThreadIdArgs == Threads \cup {""}

WorkspaceArgs == {"", "/ws"}

ModelIdArgs == {Undefined, "m1"}

\* no SqlJsSaver
NoHandle == 0

\* mcpClient = null
NoClient == 0

\* the servers of MCP_SERVERS
Servers == {"exa", "stargate-yingmi"}

\* the tools a server offers
ToolsOf(server) == {server \o ":tool"}

Handles == 1..MaxHandles

Clients == 1..MaxClients

CallIds == 1..MaxCalls

\* JavaScript truthiness of a string | undefined | null value
Truthy(v) == v # Undefined /\ v # Null /\ v # ""

\* error messages
ErrMissingThreadId == "Thread ID is required for checkpointing."
ErrMissingWorkspace == "Workspace path is required. Please select a workspace folder before running the agent."
ErrCredentialMissing == "API key not configured. Please add your API key in settings."
ErrNoDefaultModel == "No default model configured. Please add a model in settings."
\* rejection of SqlJsSaver.initialize() / SqlJsSaver.close()
ErrInitialize == "SqlJsSaver.initialize rejected"
ErrClose == "SqlJsSaver.close rejected"
\* mcpClient.close() rejecting
ErrMCPClose == "MCP client close failed"
\* results of the workspace file handlers
ErrNoWorkspaceLinked == "No workspace folder linked"
\* a plausible slip: the guard reports the generic missing-workspace result
ErrAccessDeniedAsNoWorkspace == ErrNoWorkspaceLinked
ErrAccessDenied == "Access denied: path outside workspace"
\* unlinkSync of a missing file
ErrENOENT == "ENOENT"

-----------------------------------------------------------------------------
(* Path strings and the functions of node:path (POSIX) *)

\* A path string is a sequence of symbols: "/" and "." stand for themselves, every
\* other symbol stands for a run of characters that holds neither of them. The empty
\* sequence is the empty string.
Slash == "/"
Dot == "."

\* the values a path-typed variable can hold besides a string
UndefinedPath == <<Undefined>>
NullPath == <<Null>>

\* JavaScript truthiness of a string | undefined | null path value
TruthyPath(v) == v # UndefinedPath /\ v # NullPath /\ v # <<>>

\* str.startsWith(prefix)
startsWith(str, prefix) ==
    /\ Len(prefix) <= Len(str)
    /\ SubSeq(str, 1, Len(prefix)) = prefix

\* the segments of a path string between its separators, empty segments left out
RECURSIVE SplitFrom(_, _, _)
SplitFrom(str, cur, acc) ==
    IF str = <<>>
    THEN IF cur = <<>> THEN acc ELSE Append(acc, cur)
    ELSE IF Head(str) = Slash
    THEN SplitFrom(Tail(str), <<>>, IF cur = <<>> THEN acc ELSE Append(acc, cur))
    ELSE SplitFrom(Tail(str), Append(cur, Head(str)), acc)

Split(str) == SplitFrom(str, <<>>, <<>>)

\* segments.join("/")
RECURSIVE JoinSegments(_)
JoinSegments(segments) ==
    IF segments = <<>> THEN <<>>
    ELSE IF Len(segments) = 1 THEN segments[1]
    ELSE segments[1] \o <<Slash>> \o JoinSegments(Tail(segments))

DotDot == <<Dot, Dot>>

\* normalizeString of node:path: "." segments are dropped and a ".." segment removes
\* the segment before it; a ".." with nothing to remove is kept only in a relative path
RECURSIVE NormalizeSegments(_, _, _)
NormalizeSegments(segments, res, allowAboveRoot) ==
    IF segments = <<>> THEN res
    ELSE LET seg == Head(segments)
             rest == Tail(segments) IN
         IF seg = <<Dot>>
         THEN NormalizeSegments(rest, res, allowAboveRoot)
         ELSE IF seg = DotDot
         THEN IF res # <<>> /\ res[Len(res)] # DotDot
              THEN NormalizeSegments(rest, SubSeq(res, 1, Len(res) - 1), allowAboveRoot)
              ELSE IF allowAboveRoot
              THEN NormalizeSegments(rest, Append(res, seg), allowAboveRoot)
              ELSE NormalizeSegments(rest, res, allowAboveRoot)
         ELSE NormalizeSegments(rest, Append(res, seg), allowAboveRoot)

isAbsolute(path) == path # <<>> /\ path[1] = Slash

\* path.normalize
pathNormalize(path) ==
    IF path = <<>> THEN <<Dot>>
    ELSE LET trailingSeparator == path[Len(path)] = Slash
             body == JoinSegments(NormalizeSegments(Split(path), <<>>, ~isAbsolute(path))) IN
         IF body = <<>>
         THEN IF isAbsolute(path) THEN <<Slash>>
              ELSE IF trailingSeparator THEN <<Dot, Slash>> ELSE <<Dot>>
         ELSE (IF isAbsolute(path) THEN <<Slash>> ELSE <<>>)
                  \o body \o (IF trailingSeparator THEN <<Slash>> ELSE <<>>)

\* path.join(a, b): the non-empty arguments joined by "/", then normalized
pathJoin(a, b) ==
    LET joined == IF a = <<>> THEN b
                  ELSE IF b = <<>> THEN a
                  ELSE a \o <<Slash>> \o b IN
    IF joined = <<>> THEN <<Dot>> ELSE pathNormalize(joined)

\* path.resolve(path): an absolute normalized path without a trailing separator; a
\* relative path is resolved against the working directory
pathResolve(path) ==
    LET cwd == <<Slash, "app">>
        full == IF isAbsolute(path) THEN path
                ELSE IF path = <<>> THEN cwd
                ELSE cwd \o <<Slash>> \o path IN
    <<Slash>> \o JoinSegments(NormalizeSegments(Split(full), <<>>, FALSE))

-----------------------------------------------------------------------------
(* State *)

VARIABLES
    checkpointers,     \* runtime.ts: Map threadId -> SqlJsSaver (NoHandle: no entry)
    savers,            \* every SqlJsSaver object: its thread, lifecycle state, close() calls
    calls,             \* every call of an exported operation: arguments, position, outcome
    files,             \* paths of the store files on disk
    apiKey,            \* config.apiKey
    userModels,        \* config.models
    storeDefaultModel, \* settings store key "defaultModel"
    mcpClient,         \* runtime.ts: let mcpClient (NoClient: null)
    mcpTools,          \* runtime.ts: let mcpTools, the names of the tools
    mcpClients,        \* every MultiServerMCPClient object and its lifecycle state
    mcpReachable,      \* the configured MCP servers that accept connections
    threadRows,        \* the threads table: the metadata column of every thread
    storeWorkspacePath \* settings store key "workspacePath"

vars == <<checkpointers, savers, calls, files, apiKey, userModels, storeDefaultModel,
          mcpClient, mcpTools, mcpClients, mcpReachable, threadRows,
          storeWorkspacePath>>

config == <<apiKey, userModels, storeDefaultModel>>

pool == <<mcpClient, mcpTools, mcpClients, mcpReachable>>

workspaces == <<threadRows, storeWorkspacePath>>

-----------------------------------------------------------------------------
(* Storage: the per-thread store file *)

THREADS_DIR == "~/.openwork/threads"

\* join(getThreadCheckpointDir(), `${threadId}.sqlite`)
getThreadCheckpointPath(threadId) == THREADS_DIR \o "/" \o threadId \o ".sqlite"

existsSync(fs, path) == path \in fs

\* fs.unlinkSync: removes the file, throws ENOENT when there is none
unlinkSync(fs, path) ==
    IF path \in fs
    THEN [files |-> fs \ {path}, err |-> ""]
    ELSE [files |-> fs, err |-> ErrENOENT]

\* a plausible slip: unlink without the existsSync test
deleteThreadCheckpointNoExistsTest(fs, threadId) ==
    unlinkSync(fs, getThreadCheckpointPath(threadId))

deleteThreadCheckpoint(fs, threadId) ==
    LET path == getThreadCheckpointPath(threadId) IN
    IF existsSync(fs, path)
    THEN unlinkSync(fs, path)
    ELSE [files |-> fs, err |-> ""]

\* SqlJsSaver.initialize(): opens the store file of the thread, creating it if absent
SaverInitializeFiles(fs, threadId) == fs \cup {getThreadCheckpointPath(threadId)}

\* SqlJsSaver.close(): flushes the store to its file, then closes
SaverCloseFiles(fs, threadId) == fs \cup {getThreadCheckpointPath(threadId)}

-----------------------------------------------------------------------------
(* Credential and model configuration *)

getApiKey == apiKey

getUserModels == userModels

\* userModels.find((m) => m.isDefault): the index of the first record flagged default,
\* 0 when there is none
FindDefault(ms) ==
    IF \E i \in 1..Len(ms) : ms[i].isDefault
    THEN CHOOSE i \in 1..Len(ms) : ms[i].isDefault /\ \A j \in 1..(i - 1) : ~ms[j].isDefault
    ELSE 0

\* userModels.find((m) => m.id === id): the index of the first record with that id,
\* 0 when there is none
FindById(ms, id) ==
    IF \E i \in 1..Len(ms) : ms[i].id = id
    THEN CHOOSE i \in 1..Len(ms) : ms[i].id = id /\ \A j \in 1..(i - 1) : ms[j].id # id
    ELSE 0

\* a plausible slip: the flagged record is not looked at
getDefaultModelStoredOnly == storeDefaultModel

\* defaultModel?.id || store.get("defaultModel", null)
getDefaultModel ==
    LET i == FindDefault(getUserModels) IN
    IF i # 0 /\ Truthy(getUserModels[i].id)
    THEN getUserModels[i].id
    ELSE storeDefaultModel

\* a plausible slip: the id is passed on without the lookup
ProviderModelIdNoLookup(id) == id

\* userModels.find((m) => m.id === id)?.modelId || id
ProviderModelId(id) ==
    LET i == FindById(getUserModels, id) IN
    IF i # 0 /\ Truthy(getUserModels[i].modelId)
    THEN getUserModels[i].modelId
    ELSE id

\* a plausible slip: the default model is resolved before the API key is tested
getModelInstanceDefaultFirst(modelId) ==
    IF ~Truthy(modelId) /\ ~Truthy(getDefaultModel)
    THEN [err |-> ErrNoDefaultModel, model |-> ""]
    ELSE IF ~Truthy(getApiKey)
    THEN [err |-> ErrCredentialMissing, model |-> ""]
    ELSE IF Truthy(modelId)
    THEN [err |-> "", model |-> ProviderModelId(modelId)]
    ELSE [err |-> "", model |-> ProviderModelId(getDefaultModel)]

\* the outcome of getModelInstance: the error thrown, or the model id given to ChatOpenAI
getModelInstance(modelId) ==
    IF ~Truthy(getApiKey)
    THEN [err |-> ErrCredentialMissing, model |-> ""]
    ELSE IF Truthy(modelId)
    THEN [err |-> "", model |-> ProviderModelId(modelId)]
    ELSE IF ~Truthy(getDefaultModel)
    THEN [err |-> ErrNoDefaultModel, model |-> ""]
    ELSE [err |-> "", model |-> ProviderModelId(getDefaultModel)]

\* a plausible slip: the model is resolved before the workspace path is tested
createAgentRuntimeChecksModelFirst(threadId, workspacePath, modelId) ==
    IF ~Truthy(threadId)
    THEN [err |-> ErrMissingThreadId, model |-> ""]
    ELSE IF getModelInstance(modelId).err # ""
    THEN getModelInstance(modelId)
    ELSE IF ~Truthy(workspacePath)
    THEN [err |-> ErrMissingWorkspace, model |-> ""]
    ELSE getModelInstance(modelId)

\* a plausible slip: the error of getModelInstance is caught and replaced
createAgentRuntimeChecksWrapped(threadId, workspacePath, modelId) ==
    IF ~Truthy(threadId)
    THEN [err |-> ErrMissingThreadId, model |-> ""]
    ELSE IF ~Truthy(workspacePath)
    THEN [err |-> ErrMissingWorkspace, model |-> ""]
    ELSE IF getModelInstance(modelId).err # ""
    THEN [err |-> "Failed to create agent runtime", model |-> ""]
    ELSE getModelInstance(modelId)

\* the synchronous head of createAgentRuntime: the two argument tests, then
\* getModelInstance; the error thrown, or the resolved model
createAgentRuntimeChecks(threadId, workspacePath, modelId) ==
    IF ~Truthy(threadId)
    THEN [err |-> ErrMissingThreadId, model |-> ""]
    ELSE IF ~Truthy(workspacePath)
    THEN [err |-> ErrMissingWorkspace, model |-> ""]
    ELSE getModelInstance(modelId)

-----------------------------------------------------------------------------
(* Calls and SqlJsSaver objects *)

\* no UserModel argument
NoUserModel == [id |-> "", modelId |-> "", isDefault |-> FALSE]

IdleCall ==
    [op |-> "idle", threadId |-> "", workspacePath |-> "", modelId |-> "",
     pc |-> "idle", cp |-> NoHandle, closePromises |-> {}, pending |-> {},
     err |-> "", model |-> "", apiKey |-> Null, result |-> Null,
     interruptOn |-> {}, tools |-> [defined |-> FALSE, list |-> {}],
     userModel |-> NoUserModel, client |-> NoClient,
     path |-> <<>>, root |-> UndefinedPath, fsOps |-> <<>>]

NewCall(op, threadId, workspacePath, modelId) ==
    [op |-> op, threadId |-> threadId, workspacePath |-> workspacePath,
     modelId |-> modelId, pc |-> "running", cp |-> NoHandle, closePromises |-> {},
     pending |-> {}, err |-> "", model |-> "", apiKey |-> Null, result |-> Null,
     interruptOn |-> {}, tools |-> [defined |-> FALSE, list |-> {}],
     userModel |-> NoUserModel, client |-> NoClient,
     path |-> <<>>, root |-> UndefinedPath, fsOps |-> <<>>]

UnusedSaver == [thread |-> "", state |-> "unused", closeCalls |-> 0]

HasFreeCall == \E c \in CallIds : calls[c].pc = "idle"

\* calls take the call ids in order
NextCallId == CHOOSE c \in CallIds : calls[c].pc = "idle" /\ \A d \in 1..(c - 1) : calls[d].pc # "idle"

Constructed == {h \in Handles : savers[h].state # "unused"}

\* the SqlJsSaver that the next `new SqlJsSaver(dbPath)` makes
FreshHandle == Cardinality(Constructed) + 1

\* close() is called on every saver of hs
SaverCloseCalled(sv, hs) ==
    [h \in Handles |->
        IF h \in hs
        THEN [sv[h] EXCEPT !.closeCalls = @ + 1,
                           !.state = IF @ = "open" THEN "closing" ELSE @]
        ELSE sv[h]]

\* checkpointers.clear()
EmptyCache == [T \in Threads |-> NoHandle]

\* a plausible slip: close() is called without the `if (checkpointer)` test
HasCheckpointerAlways(cp) == TRUE

\* `if (checkpointer)` in closeCheckpointer
HasCheckpointer(cp) == cp # NoHandle

\* a plausible slip: the entry is left in the cache
checkpointersDeleteForgotten(cache, threadId) == cache

\* a plausible slip: the whole cache is cleared
checkpointersDeleteAll(cache, threadId) == [T \in Threads |-> NoHandle]

\* checkpointers.delete(threadId)
checkpointersDelete(cache, threadId) == [cache EXCEPT ![threadId] = NoHandle]

\* checkpointers.set(threadId, checkpointer)
checkpointersSet(cache, threadId, cp) == [cache EXCEPT ![threadId] = cp]

\* Array.from(checkpointers.values())
checkpointersValues(cache) == {cache[T] : T \in Threads} \ {NoHandle}

\* a plausible slip: Promise.race / a missing await, the first settled close() resumes
PromiseAllFulfilledAfterFirst(pending) == TRUE

\* Promise.all(closePromises) fulfils once every close() has fulfilled
PromiseAllFulfilled(pending) == pending = {}

\* a plausible slip: the interruptOn option is left out of the agent's parameters
interruptOnNothing == {}

\* interruptOn: { execute: true }
interruptOn == {"execute"}

\* a plausible slip: the tools option is never passed
agentToolsNever(tools) == [defined |-> FALSE, list |-> {}]

\* tools: mcpTools.length > 0 ? mcpTools : undefined
agentTools(tools) ==
    IF tools # {}
    THEN [defined |-> TRUE, list |-> tools]
    ELSE [defined |-> FALSE, list |-> {}]

\* the record of a call that returns saver h: getCheckpointer returns it as it is,
\* createAgentRuntime goes on to createDeepAgent with it
ReturnCheckpointer(rec, h) ==
    IF rec.op = "createAgentRuntime"
    THEN [rec EXCEPT !.pc = "done", !.cp = h,
                     !.interruptOn = interruptOn, !.tools = agentTools(mcpTools)]
    ELSE [rec EXCEPT !.pc = "done", !.cp = h]

-----------------------------------------------------------------------------
(* getCheckpointer *)

\* getCheckpointer up to its await, run for call c with record rec: a cached saver is
\* returned; otherwise a SqlJsSaver is constructed and initialize() is started
getCheckpointerEnter(c, rec) ==
    LET cached == checkpointers[rec.threadId] IN
    IF cached # NoHandle
    THEN /\ calls' = [calls EXCEPT ![c] = ReturnCheckpointer(rec, cached)]
         /\ UNCHANGED savers
    ELSE /\ FreshHandle \in Handles
         /\ savers' = [savers EXCEPT ![FreshHandle] =
                          [thread |-> rec.threadId, state |-> "initializing", closeCalls |-> 0]]
         /\ calls' = [calls EXCEPT ![c] =
                          [rec EXCEPT !.pc = "awaitInitialize", !.cp = FreshHandle]]

\* a plausible slip: the saver is put in the cache although initialize() rejected
checkpointersOnRejectCached(cache, T, h) == checkpointersSet(cache, T, h)

\* the rejection of initialize() leaves getCheckpointer before checkpointers.set
checkpointersOnReject(cache, T, h) == cache

\* getCheckpointer after its await: initialize() has fulfilled (ok) or rejected
getCheckpointerResume(c, ok) ==
    LET h == calls[c].cp
        T == calls[c].threadId IN
    /\ calls[c].pc = "awaitInitialize"
    /\ IF ok
       THEN /\ savers' = [savers EXCEPT ![h].state = "open"]
            /\ files' = SaverInitializeFiles(files, T)
            /\ checkpointers' = checkpointersSet(checkpointers, T, h)
            /\ calls' = [calls EXCEPT ![c] = ReturnCheckpointer(calls[c], h)]
       ELSE /\ savers' = [savers EXCEPT ![h].state = "initFailed"]
            /\ calls' = [calls EXCEPT ![c].pc = "threw", ![c].err = ErrInitialize]
            /\ checkpointers' = checkpointersOnReject(checkpointers, T, h)
            /\ UNCHANGED files
    /\ UNCHANGED <<config, pool, workspaces>>

GetCheckpointer(T) ==
    /\ HasFreeCall
    /\ getCheckpointerEnter(NextCallId, NewCall("getCheckpointer", T, Undefined, Undefined))
    /\ UNCHANGED <<checkpointers, files, config, pool, workspaces>>

GetCheckpointerResume(c, ok) ==
    /\ calls[c].op = "getCheckpointer"
    /\ getCheckpointerResume(c, ok)

-----------------------------------------------------------------------------
(* closeCheckpointer *)

CloseCheckpointer(T) ==
    LET c == NextCallId
        rec == NewCall("closeCheckpointer", T, Undefined, Undefined)
        checkpointer == checkpointers[T] IN
    /\ HasFreeCall
    /\ IF HasCheckpointer(checkpointer)
       THEN /\ savers' = SaverCloseCalled(savers, {checkpointer})
            /\ calls' = [calls EXCEPT ![c] =
                            [rec EXCEPT !.pc = "awaitClose", !.cp = checkpointer]]
       ELSE /\ calls' = [calls EXCEPT ![c] = [rec EXCEPT !.pc = "done"]]
            /\ UNCHANGED savers
    /\ UNCHANGED <<checkpointers, files, config, pool, workspaces>>

\* closeCheckpointer after its await: close() has fulfilled (ok) or rejected
CloseCheckpointerResume(c, ok) ==
    LET h == calls[c].cp
        T == calls[c].threadId IN
    /\ calls[c].op = "closeCheckpointer"
    /\ calls[c].pc = "awaitClose"
    /\ IF ok
       THEN /\ savers' = [savers EXCEPT ![h].state = "closed"]
            /\ files' = SaverCloseFiles(files, savers[h].thread)
            /\ checkpointers' = checkpointersDelete(checkpointers, T)
            /\ calls' = [calls EXCEPT ![c].pc = "done"]
       ELSE /\ calls' = [calls EXCEPT ![c].pc = "threw", ![c].err = ErrClose]
            /\ UNCHANGED <<savers, files, checkpointers>>
    /\ UNCHANGED <<config, pool, workspaces>>

-----------------------------------------------------------------------------
(* closeRuntime *)

\* closeRuntime up to its await: close() is called on every cached saver
CloseRuntime ==
    LET c == NextCallId
        rec == NewCall("closeRuntime", Undefined, Undefined, Undefined)
        closePromises == checkpointersValues(checkpointers) IN
    /\ HasFreeCall
    /\ savers' = SaverCloseCalled(savers, closePromises)
    /\ IF PromiseAllFulfilled(closePromises)
       THEN /\ checkpointers' = EmptyCache
            /\ calls' = [calls EXCEPT ![c] =
                            [rec EXCEPT !.pc = "done", !.closePromises = closePromises]]
       ELSE /\ calls' = [calls EXCEPT ![c] =
                            [rec EXCEPT !.pc = "awaitAll", !.closePromises = closePromises,
                                        !.pending = closePromises]]
            /\ UNCHANGED checkpointers
    /\ UNCHANGED <<files, config, pool, workspaces>>

\* one close() started by closeRuntime call c settles; Promise.all rejects on the first
\* rejection, and fulfils (closeRuntime goes on to clear the cache) on the last fulfilment
CloseRuntimeCloseSettled(c, h, ok) ==
    LET left == calls[c].pending \ {h} IN
    /\ calls[c].op = "closeRuntime"
    /\ h \in calls[c].pending
    /\ IF ok
       THEN /\ savers' = [savers EXCEPT ![h].state = "closed"]
            /\ files' = SaverCloseFiles(files, savers[h].thread)
            /\ IF calls[c].pc = "awaitAll" /\ PromiseAllFulfilled(left)
               THEN /\ checkpointers' = EmptyCache
                    /\ calls' = [calls EXCEPT ![c].pending = left, ![c].pc = "done"]
               ELSE /\ calls' = [calls EXCEPT ![c].pending = left]
                    /\ UNCHANGED checkpointers
       ELSE /\ calls' = [calls EXCEPT ![c].pending = left,
                                      ![c].pc = IF @ = "awaitAll" THEN "threw" ELSE @,
                                      ![c].err = IF calls[c].pc = "awaitAll" THEN ErrClose ELSE @]
            /\ UNCHANGED <<savers, files, checkpointers>>
    /\ UNCHANGED <<config, pool, workspaces>>

-----------------------------------------------------------------------------
(* createAgentRuntime *)

CreateAgentRuntime(threadId, workspacePath, modelId) ==
    LET c == NextCallId
        rec == NewCall("createAgentRuntime", threadId, workspacePath, modelId)
        head == createAgentRuntimeChecks(threadId, workspacePath, modelId) IN
    /\ HasFreeCall
    /\ IF head.err # ""
       THEN /\ calls' = [calls EXCEPT ![c] =
                            [rec EXCEPT !.pc = "threw", !.err = head.err,
                                        !.apiKey = IF head.err \in {ErrMissingThreadId, ErrMissingWorkspace}
                                                   THEN Null ELSE getApiKey]]
            /\ UNCHANGED savers
       ELSE getCheckpointerEnter(c, [rec EXCEPT !.model = head.model, !.apiKey = getApiKey])
    /\ UNCHANGED <<checkpointers, files, config, pool, workspaces>>

\* createAgentRuntime after `await getCheckpointer(threadId)`: the rest of
\* getCheckpointer, then the agent is built around its result
CreateAgentRuntimeResume(c, ok) ==
    /\ calls[c].op = "createAgentRuntime"
    /\ getCheckpointerResume(c, ok)

-----------------------------------------------------------------------------
(* deleteThreadCheckpoint *)

DeleteThreadCheckpoint(T) ==
    LET c == NextCallId
        rec == NewCall("deleteThreadCheckpoint", T, Undefined, Undefined)
        r == deleteThreadCheckpoint(files, T) IN
    /\ HasFreeCall
    /\ files' = r.files
    /\ calls' = [calls EXCEPT ![c] =
                    [rec EXCEPT !.pc = IF r.err = "" THEN "done" ELSE "threw", !.err = r.err]]
    /\ UNCHANGED <<checkpointers, savers, config, pool, workspaces>>

-----------------------------------------------------------------------------
(* Credential and model handlers (ipc/models.ts) and their storage functions *)

\* ids of the records a user adds
ModelIds == {"m1", "m2"}

\* the UserModel records a user adds: modelId may be left empty
UserModelArgs ==
    [id : ModelIds, modelId : {"provider-x", ""}, isDefault : BOOLEAN]

\* the ids given to models:setDefault: "m3" names no record
SetDefaultArgs == ModelIds \cup {"m3", ""}

\* the model ids given to createAgentRuntime: "gpt-x" names no record
ModelIdArgsWide == {Undefined, "", "m1", "gpt-x"}

ApiKeyArgs == {"", "sk-1"}

\* setApiKey: config.apiKey = apiKey
setApiKey(key) == key

\* deleteApiKey: delete config.apiKey
deleteApiKey == Undefined

\* hasApiKey: !!getApiKey()
hasApiKey == Truthy(getApiKey)

\* models:getApiKey: getApiKey() ?? null
getApiKeyHandler == IF getApiKey = Undefined THEN Null ELSE getApiKey

\* a plausible slip: the handler answers from the stored setting alone
getDefaultHandlerStoredOnly == storeDefaultModel

\* models:getDefault: defaultModel?.id || store.get("defaultModel", null)
getDefaultHandler ==
    LET models == getUserModels
        i == FindDefault(models) IN
    IF i # 0 /\ Truthy(models[i].id) THEN models[i].id ELSE storeDefaultModel

\* a plausible slip: the record is appended without looking for its id
addUserModelAlwaysAppend(models, model) == Append(models, model)

\* addUserModel: the record with the same id is replaced in place, a new id is appended
addUserModel(models, model) ==
    LET existingIndex == FindById(models, model.id) IN
    IF existingIndex # 0
    THEN [models EXCEPT ![existingIndex] = model]
    ELSE Append(models, model)

\* deleteUserModel: models.filter((m) => m.id !== modelId)
deleteUserModel(models, modelId) ==
    LET Keep(m) == m.id # modelId IN SelectSeq(models, Keep)

\* a plausible slip: the flag is set on the new default, the others are left as they are
setDefaultFlagsKeepOthers(models, modelId) ==
    [i \in 1..Len(models) |->
        [models[i] EXCEPT !.isDefault = @ \/ models[i].id = modelId]]

\* models.map((m) => ({ ...m, isDefault: m.id === modelId }))
setDefaultFlags(models, modelId) ==
    [i \in 1..Len(models) |-> [models[i] EXCEPT !.isDefault = (models[i].id = modelId)]]

\* a handler that runs to its end in one step: call c is recorded with what it read
\* and returned
HandlerCall(op, modelId, key, result, userModel) ==
    /\ HasFreeCall
    /\ calls' = [calls EXCEPT ![NextCallId] =
                    [NewCall(op, Undefined, Undefined, modelId)
                        EXCEPT !.pc = "done", !.apiKey = key, !.result = result,
                               !.userModel = userModel]]
    /\ UNCHANGED <<checkpointers, savers, files, pool, workspaces>>

ModelsSetApiKey(key) ==
    /\ HandlerCall("models:setApiKey", Undefined, key, Null, NoUserModel)
    /\ apiKey' = setApiKey(key)
    /\ UNCHANGED <<userModels, storeDefaultModel>>

ModelsDeleteApiKey ==
    /\ HandlerCall("models:deleteApiKey", Undefined, Null, Null, NoUserModel)
    /\ apiKey' = deleteApiKey
    /\ UNCHANGED <<userModels, storeDefaultModel>>

ModelsGetApiKey ==
    /\ HandlerCall("models:getApiKey", Undefined, getApiKey, getApiKeyHandler, NoUserModel)
    /\ UNCHANGED config

ModelsHasApiKey ==
    /\ HandlerCall("models:hasApiKey", Undefined, getApiKey, hasApiKey, NoUserModel)
    /\ UNCHANGED config

ModelsGetDefault ==
    /\ HandlerCall("models:getDefault", Undefined, Null, getDefaultHandler, NoUserModel)
    /\ UNCHANGED config

ModelsSetDefault(modelId) ==
    /\ HandlerCall("models:setDefault", modelId, Null, Null, NoUserModel)
    /\ storeDefaultModel' = modelId
    /\ userModels' = setDefaultFlags(getUserModels, modelId)
    /\ UNCHANGED apiKey

ModelsAddModel(model) ==
    /\ HandlerCall("models:addModel", Undefined, Null, Null, model)
    /\ userModels' = addUserModel(getUserModels, model)
    /\ UNCHANGED <<apiKey, storeDefaultModel>>

ModelsDeleteModel(modelId) ==
    /\ HandlerCall("models:deleteModel", modelId, Null, Null, NoUserModel)
    /\ userModels' = deleteUserModel(getUserModels, modelId)
    /\ UNCHANGED <<apiKey, storeDefaultModel>>

-----------------------------------------------------------------------------
(* The MCP tool pool: initMCP / closeMCP *)

\* the MultiServerMCPClient objects constructed so far
ConstructedClients == {k \in Clients : mcpClients[k] # "unused"}

\* new MultiServerMCPClient(MCP_SERVERS)
FreshClient == CHOOSE k \in Clients \ ConstructedClients :
                   \A j \in Clients \ ConstructedClients : k <= j

\* what getTools() of a live client fulfils with: the tools of every configured server
AllTools == UNION {ToolsOf(server) : server \in Servers}

\* getTools() connects to every configured server and, with the client's default
\* options, rejects as soon as one of them cannot be reached; on a client that is being
\* closed or is closed it may settle either way
GetToolsMaySettle(k, ok) ==
    IF mcpClients[k] = "created" THEN ok = (mcpReachable = Servers) ELSE TRUE

\* initMCP up to `await mcpClient.getTools()`
InitMCP ==
    LET c == NextCallId
        k == FreshClient IN
    /\ HasFreeCall
    /\ ConstructedClients # Clients
    /\ mcpClient' = k
    /\ mcpClients' = [mcpClients EXCEPT ![k] = "created"]
    /\ calls' = [calls EXCEPT ![c] =
                    [NewCall("initMCP", Undefined, Undefined, Undefined)
                        EXCEPT !.pc = "awaitGetTools", !.client = k]]
    /\ UNCHANGED <<mcpTools, mcpReachable, checkpointers, savers, files, config, workspaces>>

\* initMCP after `await mcpClient.getTools()`: the tools are stored, or the catch
\* block empties the pool; the call returns in both cases
InitMCPResume(c, ok) ==
    LET k == calls[c].client IN
    /\ calls[c].op = "initMCP"
    /\ calls[c].pc = "awaitGetTools"
    /\ GetToolsMaySettle(k, ok)
    /\ IF ok
       THEN /\ mcpTools' = AllTools
            /\ mcpClients' = [mcpClients EXCEPT
                                 ![k] = IF @ = "created" THEN "connected" ELSE @]
            /\ UNCHANGED mcpClient
       ELSE /\ mcpClient' = NoClient
            /\ mcpTools' = {}
            /\ mcpClients' = [mcpClients EXCEPT
                                 ![k] = IF @ = "created" THEN "failed" ELSE @]
    /\ calls' = [calls EXCEPT ![c].pc = "done"]
    /\ UNCHANGED <<mcpReachable, checkpointers, savers, files, config, workspaces>>

\* closeMCP up to `await mcpClient.close()`, or to its end when there is no client
CloseMCP ==
    LET c == NextCallId
        rec == NewCall("closeMCP", Undefined, Undefined, Undefined) IN
    /\ HasFreeCall
    /\ IF mcpClient # NoClient
       THEN /\ mcpClients' = [mcpClients EXCEPT ![mcpClient] = "closing"]
            /\ calls' = [calls EXCEPT ![c] =
                            [rec EXCEPT !.pc = "awaitClose", !.client = mcpClient]]
       ELSE /\ calls' = [calls EXCEPT ![c] = [rec EXCEPT !.pc = "done"]]
            /\ UNCHANGED mcpClients
    /\ UNCHANGED <<mcpClient, mcpTools, mcpReachable, checkpointers, savers, files, config, workspaces>>

\* closeMCP after `await mcpClient.close()`: the pool is emptied, or the rejection
\* of close() leaves closeMCP by throwing
CloseMCPResume(c, ok) ==
    LET k == calls[c].client IN
    /\ calls[c].op = "closeMCP"
    /\ calls[c].pc = "awaitClose"
    /\ IF ok
       THEN /\ mcpClient' = NoClient
            /\ mcpTools' = {}
            /\ mcpClients' = [mcpClients EXCEPT ![k] = "closed"]
            /\ calls' = [calls EXCEPT ![c].pc = "done"]
       ELSE /\ calls' = [calls EXCEPT ![c].pc = "threw", ![c].err = ErrMCPClose]
            /\ UNCHANGED <<mcpClient, mcpTools, mcpClients>>
    /\ UNCHANGED <<mcpReachable, checkpointers, savers, files, config, workspaces>>

-----------------------------------------------------------------------------
(* The disk under the workspace handlers *)

NodeModules == <<"node_modules">>

\* /a/ws and /a/ws/src are workspace folders; /a/ws-other is a sibling of /a/ws whose
\* name starts with "ws"; /a/ws/link is a symbolic link to a file outside /a/ws
DirA == <<Slash>> \o JoinSegments(<< <<"a">> >>)
DirWs == <<Slash>> \o JoinSegments(<< <<"a">>, <<"ws">> >>)
DirSrc == <<Slash>> \o JoinSegments(<< <<"a">>, <<"ws">>, <<"src">> >>)
DirWsOther == <<Slash>> \o JoinSegments(<< <<"a">>, <<"ws", "-other">> >>)
FileSecret == <<Slash>> \o JoinSegments(<< <<"a">>, <<"out">>, <<"secret">> >>)

DiskDir(path) ==
    [path |-> path, kind |-> "dir", target |-> <<>>, content |-> "", size |-> 0,
     mtime |-> "2025-01-01T00:00:00.000Z"]

DiskFile(path, content, size) ==
    [path |-> path, kind |-> "file", target |-> <<>>, content |-> content, size |-> size,
     mtime |-> "2025-01-02T00:00:00.000Z"]

Disk ==
    { DiskDir(DirA),
      DiskDir(DirWs),
      DiskFile(DirWs \o <<Slash, "f">>, "text of ws/f", 1),
      DiskDir(DirSrc),
      DiskFile(DirSrc \o <<Slash, "main">>, "text of ws/src/main", 2),
      DiskFile(DirSrc \o <<Slash, Dot, "hidden">>, "text of ws/src/.hidden", 3),
      DiskDir(DirSrc \o <<Slash>> \o NodeModules),
      DiskFile(DirSrc \o <<Slash>> \o NodeModules \o <<Slash, "dep">>, "text of dep", 4),
      DiskDir(DirWs \o <<Slash, Dot, "git">>),
      DiskFile(DirWs \o <<Slash, Dot, "git", Slash, "config">>, "text of .git/config", 5),
      DiskDir(DirWs \o <<Slash>> \o NodeModules),
      DiskFile(DirWs \o <<Slash>> \o NodeModules \o <<Slash, "mod">>, "text of mod", 6),
      [path |-> DirWs \o <<Slash, "link">>, kind |-> "link", target |-> FileSecret,
       content |-> "", size |-> 0, mtime |-> "2025-01-03T00:00:00.000Z"],
      DiskDir(DirWsOther),
      DiskFile(DirWsOther \o <<Slash, "f">>, "text of ws-other/f", 7),
      DiskDir(<<Slash>> \o JoinSegments(<< <<"a">>, <<"out">> >>)),
      DiskFile(FileSecret, "text of out/secret", 8) }

Lookup(path) == {e \in Disk : e.path = path}

DiskEntry(path) == CHOOSE e \in Lookup(path) : TRUE

\* the path the operating system reaches, symbolic links followed
RECURSIVE RealFrom(_, _)
RealFrom(segments, cur) ==
    IF segments = <<>> THEN cur
    ELSE LET next == cur \o <<Slash>> \o Head(segments) IN
         IF Lookup(next) # {} /\ DiskEntry(next).kind = "link"
         THEN RealFrom(Tail(segments), DiskEntry(next).target)
         ELSE RealFrom(Tail(segments), next)

RealPath(path) ==
    LET real == RealFrom(Split(pathResolve(path)), <<>>) IN
    IF real = <<>> THEN <<Slash>> ELSE real

\* fs.stat / fs.readFile / fs.readdir find something at the path
Exists(path) == Lookup(RealPath(path)) # {}

\* fs.stat(path), for a path that exists
fsStat(path) ==
    LET e == DiskEntry(RealPath(path)) IN
    [isDirectory |-> e.kind = "dir", size |-> e.size, mtime |-> e.mtime]

\* fs.readFile(path, "utf-8"), for a file that exists
fsReadFile(path) == DiskEntry(RealPath(path)).content

\* buffer.toString("base64")
toBase64(content) == "base64(" \o content \o ")"

\* the last segment of a path
Basename(path) == LET segments == Split(path) IN segments[Len(segments)]

\* the directory entries of fs.readdir(dirPath, { withFileTypes: true })
Dirents(dirPath) ==
    LET dir == RealPath(dirPath) IN
    {e \in Disk : e.path # dir /\ e.path = pathJoin(dir, Basename(e.path))}

\* the place of an entry name among the names on the disk, in the order of the names
NameRank(name) ==
    LET names == << <<Dot, "git">>, <<Dot, "hidden">>, <<"dep">>, <<"f">>, <<"link">>,
                    <<"main">>, <<"mod">>, NodeModules, <<"src">>, <<"config">>,
                    <<"secret">>, <<"a">>, <<"ws">>, <<"ws", "-other">>, <<"out">> >> IN
    CHOOSE i \in 1..Len(names) : names[i] = name

\* the entries as fs.readdir lists them: by name, "forward" or "backward"
RECURSIVE Listed(_, _)
Listed(entries, order) ==
    IF entries = {} THEN <<>>
    ELSE LET first == CHOOSE e \in entries : \A o \in entries :
                          IF order = "forward"
                          THEN NameRank(Basename(e.path)) <= NameRank(Basename(o.path))
                          ELSE NameRank(Basename(e.path)) >= NameRank(Basename(o.path)) IN
         <<first>> \o Listed(entries \ {first}, order)

-----------------------------------------------------------------------------
(* The threads table (db) and the JSON metadata of a thread *)

\* a metadata object: workspacePath is the field the handlers use, title stands for
\* every other field
EmptyObject == [workspacePath |-> UndefinedPath, title |-> Undefined]

\* JSON.stringify: a field whose value is undefined is left out, null is kept
JSONStringify(object) ==
    [hasWorkspacePath |-> object.workspacePath # UndefinedPath,
     workspacePath |-> IF object.workspacePath # UndefinedPath
                       THEN object.workspacePath ELSE <<>>,
     hasTitle |-> object.title # Undefined,
     title |-> IF object.title # Undefined THEN object.title ELSE ""]

\* JSON.parse: a field that is not in the text reads as undefined
JSONParse(text) ==
    [workspacePath |-> IF text.hasWorkspacePath THEN text.workspacePath ELSE UndefinedPath,
     title |-> IF text.hasTitle THEN text.title ELSE Undefined]

\* a row whose metadata column is null
NoMetadataRow == [hasMetadata |-> FALSE, metadata |-> JSONStringify(EmptyObject)]

MetadataRow(object) == [hasMetadata |-> TRUE, metadata |-> JSONStringify(object)]

\* getThread(threadId) finds a row
HasThread(threadId) == threadId \in Threads

\* thread?.metadata ? JSON.parse(thread.metadata) : {}
ThreadMetadata(threadId) ==
    IF HasThread(threadId) /\ threadRows[threadId].hasMetadata
    THEN JSONParse(threadRows[threadId].metadata)
    ELSE EmptyObject

\* updateThread(threadId, { metadata }): the metadata column of that row is replaced
updateThread(rows, threadId, metadata) ==
    [rows EXCEPT ![threadId] = [hasMetadata |-> TRUE, metadata |-> metadata]]

\* a plausible slip: the metadata is built anew around the path
setWorkspacePathFresh(metadata, newPath) == [EmptyObject EXCEPT !.workspacePath = newPath]

\* metadata.workspacePath = newPath
setWorkspacePath(metadata, newPath) == [metadata EXCEPT !.workspacePath = newPath]

-----------------------------------------------------------------------------
(* Workspace handlers (ipc/models.ts) *)

\* the calls made so far
UsedCalls == {c \in CallIds : calls[c].pc # "idle"}

\* createAgentRuntime and the workspace handlers were called less than MaxFileCalls
\* times
FileCallsLeft ==
    /\ HasFreeCall
    /\ Cardinality({c \in UsedCalls :
                       calls[c].op \notin {"models:setApiKey", "models:deleteApiKey"}})
           < MaxFileCalls

\* a workspace handler, run to its end in one step: its awaits are on the module
\* import, the dialog and the file system, and no other handler writes what it reads
\* after them
WorkspaceCall(op, threadId, path, root, result, fsOps) ==
    /\ FileCallsLeft
    /\ calls' = [calls EXCEPT ![NextCallId] =
                    [NewCall(op, threadId, Undefined, Undefined)
                        EXCEPT !.pc = "done", !.path = path, !.root = root,
                               !.result = result, !.fsOps = fsOps,
                               !.err = IF op \in {"workspace:get", "workspace:set",
                                                   "workspace:select"}
                                       THEN "" ELSE result.error]]
    /\ UNCHANGED <<checkpointers, savers, files, config, pool>>

\* a plausible slip: a thread without a workspace falls back to the global setting
getWorkspacePathWithFallback(threadId) ==
    LET own == ThreadMetadata(threadId).workspacePath IN
    IF TruthyPath(own) THEN own
    ELSE IF storeWorkspacePath = UndefinedPath THEN NullPath ELSE storeWorkspacePath

\* the value workspace:get returns
getWorkspacePath(threadId) ==
    IF ~Truthy(threadId)
    THEN IF storeWorkspacePath = UndefinedPath THEN NullPath ELSE storeWorkspacePath
    ELSE IF ~(HasThread(threadId) /\ threadRows[threadId].hasMetadata)
    THEN NullPath
    ELSE LET metadata == JSONParse(threadRows[threadId].metadata) IN
         IF TruthyPath(metadata.workspacePath) THEN metadata.workspacePath ELSE NullPath

\* workspace:get
WorkspaceGet(threadId) ==
    /\ WorkspaceCall("workspace:get", threadId, <<>>, UndefinedPath,
                     getWorkspacePath(threadId), <<>>)
    /\ UNCHANGED workspaces

\* workspace:set
WorkspaceSet(threadId, newPath) ==
    IF ~Truthy(threadId)
    THEN /\ WorkspaceCall("workspace:set", threadId, newPath, UndefinedPath, newPath, <<>>)
         /\ storeWorkspacePath' = IF TruthyPath(newPath) THEN newPath ELSE UndefinedPath
         /\ UNCHANGED threadRows
    ELSE IF ~HasThread(threadId)
    THEN /\ WorkspaceCall("workspace:set", threadId, newPath, UndefinedPath, NullPath, <<>>)
         /\ UNCHANGED workspaces
    ELSE /\ WorkspaceCall("workspace:set", threadId, newPath, UndefinedPath, newPath, <<>>)
         /\ threadRows' = updateThread(threadRows, threadId,
                JSONStringify(setWorkspacePath(ThreadMetadata(threadId), newPath)))
         /\ UNCHANGED storeWorkspacePath

\* workspace:select; selected is the folder chosen in the dialog, UndefinedPath when
\* the dialog was canceled
WorkspaceSelect(threadId, selected) ==
    IF selected = UndefinedPath
    THEN /\ WorkspaceCall("workspace:select", threadId, selected, UndefinedPath, NullPath, <<>>)
         /\ UNCHANGED workspaces
    ELSE IF Truthy(threadId)
    THEN /\ WorkspaceCall("workspace:select", threadId, selected, UndefinedPath, selected, <<>>)
         /\ IF HasThread(threadId)
            THEN threadRows' = updateThread(threadRows, threadId,
                     JSONStringify(setWorkspacePath(ThreadMetadata(threadId), selected)))
            ELSE UNCHANGED threadRows
         /\ UNCHANGED storeWorkspacePath
    ELSE /\ WorkspaceCall("workspace:select", threadId, selected, UndefinedPath, selected, <<>>)
         /\ storeWorkspacePath' = selected
         /\ UNCHANGED threadRows

\* a plausible slip: only hidden entries are skipped
skipEntryHiddenOnly(name) == name[1] = Dot

\* entry.name.startsWith(".") || entry.name === "node_modules"
skipEntry(name) == name[1] = Dot \/ name = NodeModules

\* readDir of workspace:loadFromDisk: the entries pushed to files, in order
RECURSIVE readDir(_, _, _)
RECURSIVE readDirEntries(_, _, _, _)
readDirEntries(entries, dirPath, relativePath, order) ==
    IF entries = <<>> THEN <<>>
    ELSE LET entry == Head(entries)
             name == Basename(entry.path)
             fullPath == pathJoin(dirPath, name)
             relPath == IF relativePath # <<>>
                        THEN relativePath \o <<Slash>> \o name ELSE name
             rest == readDirEntries(Tail(entries), dirPath, relativePath, order) IN
         IF skipEntry(name) THEN rest
         ELSE IF entry.kind = "dir"
         THEN <<[path |-> <<Slash>> \o relPath, is_dir |-> TRUE, size |-> 0,
                 modified_at |-> Undefined]>>
                  \o readDir(fullPath, relPath, order) \o rest
         ELSE <<[path |-> <<Slash>> \o relPath, is_dir |-> FALSE,
                 size |-> fsStat(fullPath).size,
                 modified_at |-> fsStat(fullPath).mtime]>> \o rest

readDir(dirPath, relativePath, order) ==
    readDirEntries(Listed(Dirents(dirPath), order), dirPath, relativePath, order)

\* the result of workspace:loadFromDisk
loadFromDisk(threadId, order) ==
    LET workspacePath == ThreadMetadata(threadId).workspacePath IN
    IF ~TruthyPath(workspacePath)
    THEN [success |-> FALSE, error |-> ErrNoWorkspaceLinked, files |-> <<>>,
          workspacePath |-> UndefinedPath]
    ELSE IF ~Exists(workspacePath)
    THEN [success |-> FALSE, error |-> "ENOENT: no such file or directory, scandir", files |-> <<>>,
          workspacePath |-> UndefinedPath]
    ELSE IF ~fsStat(workspacePath).isDirectory
    THEN [success |-> FALSE, error |-> "ENOTDIR: not a directory, scandir", files |-> <<>>,
          workspacePath |-> UndefinedPath]
    ELSE [success |-> TRUE, error |-> "", files |-> readDir(workspacePath, <<>>, order),
          workspacePath |-> workspacePath]

WorkspaceLoadFromDisk(threadId, order) ==
    /\ WorkspaceCall("workspace:loadFromDisk", threadId, <<>>,
                     ThreadMetadata(threadId).workspacePath,
                     loadFromDisk(threadId, order), <<>>)
    /\ UNCHANGED workspaces

\* filePath.startsWith("/") ? filePath.slice(1) : filePath
relativePathOf(filePath) ==
    IF startsWith(filePath, <<Slash>>) THEN Tail(filePath) ELSE filePath

\* a plausible slip: the two sides of the test are exchanged
withinWorkspaceSwapped(resolvedPath, resolvedWorkspace) ==
    startsWith(resolvedWorkspace, resolvedPath)

\* resolvedPath.startsWith(resolvedWorkspace)
withinWorkspace(resolvedPath, resolvedWorkspace) ==
    startsWith(resolvedPath, resolvedWorkspace)

ReadFailure(error) ==
    [success |-> FALSE, error |-> error, content |-> Undefined, size |-> 0,
     modified_at |-> Undefined]

\* workspace:readFile (binary = FALSE) and workspace:readBinaryFile (binary = TRUE):
\* the result returned and the file system calls made, in order
readFile(threadId, filePath, binary) ==
    LET workspacePath == ThreadMetadata(threadId).workspacePath
        fullPath == pathJoin(workspacePath, relativePathOf(filePath))
        resolvedPath == pathResolve(fullPath)
        resolvedWorkspace == pathResolve(workspacePath)
        statCall == [fn |-> "stat", path |-> fullPath]
        readCall == [fn |-> "readFile", path |-> fullPath] IN
    IF ~TruthyPath(workspacePath)
    THEN [result |-> ReadFailure(ErrNoWorkspaceLinked), fsOps |-> <<>>]
    ELSE IF ~withinWorkspace(resolvedPath, resolvedWorkspace)
    THEN [result |-> ReadFailure(ErrAccessDenied), fsOps |-> <<>>]
    ELSE IF ~Exists(fullPath)
    THEN [result |-> ReadFailure("ENOENT: no such file or directory, stat"), fsOps |-> <<statCall>>]
    ELSE IF fsStat(fullPath).isDirectory
    THEN [result |-> ReadFailure("Cannot read directory as file"), fsOps |-> <<statCall>>]
    ELSE [result |-> [success |-> TRUE, error |-> "",
                      content |-> IF binary THEN toBase64(fsReadFile(fullPath))
                                  ELSE fsReadFile(fullPath),
                      size |-> fsStat(fullPath).size,
                      modified_at |-> fsStat(fullPath).mtime],
          fsOps |-> <<statCall, readCall>>]

WorkspaceReadFile(threadId, filePath) ==
    /\ WorkspaceCall("workspace:readFile", threadId, filePath,
                     ThreadMetadata(threadId).workspacePath,
                     readFile(threadId, filePath, FALSE).result,
                     readFile(threadId, filePath, FALSE).fsOps)
    /\ UNCHANGED workspaces

WorkspaceReadBinaryFile(threadId, filePath) ==
    /\ WorkspaceCall("workspace:readBinaryFile", threadId, filePath,
                     ThreadMetadata(threadId).workspacePath,
                     readFile(threadId, filePath, TRUE).result,
                     readFile(threadId, filePath, TRUE).fsOps)
    /\ UNCHANGED workspaces

\* createAgentRuntime as the workspace specifications call it
CreateAgentRuntimeBounded(threadId, workspacePath, modelId) ==
    /\ FileCallsLeft
    /\ CreateAgentRuntime(threadId, workspacePath, modelId)

-----------------------------------------------------------------------------
(* Specifications *)

UserModelM1(isDefault) == [id |-> "m1", modelId |-> "provider-1", isDefault |-> isDefault]

InitRuntime ==
    /\ checkpointers = EmptyCache
    /\ savers = [h \in Handles |-> UnusedSaver]
    /\ calls = [c \in CallIds |-> IdleCall]

\* initMCP has not been called
InitPool ==
    /\ mcpClient = NoClient
    /\ mcpTools = {}
    /\ mcpClients = [k \in Clients |-> "unused"]

\* no thread has metadata and no global workspace is set
InitWorkspaces ==
    /\ threadRows = [T \in Threads |-> NoMetadataRow]
    /\ storeWorkspacePath = UndefinedPath

\* store files written by earlier runs of the application may be on disk
StoreFiles == {getThreadCheckpointPath(T) : T \in Threads}

Init ==
    /\ InitRuntime
    /\ InitPool
    /\ InitWorkspaces
    /\ mcpReachable = Servers
    /\ files \in SUBSET StoreFiles
    /\ apiKey \in {Undefined, "sk-1"}
    /\ userModels = <<UserModelM1(TRUE)>>
    /\ storeDefaultModel = Null

Next ==
    \/ \E T \in Threads : GetCheckpointer(T)
    \/ \E c \in CallIds, ok \in BOOLEAN : GetCheckpointerResume(c, ok)
    \/ \E T \in Threads : CloseCheckpointer(T)
    \/ \E c \in CallIds, ok \in BOOLEAN : CloseCheckpointerResume(c, ok)
    \/ CloseRuntime
    \/ \E c \in CallIds, h \in Handles, ok \in BOOLEAN : CloseRuntimeCloseSettled(c, h, ok)
    \/ \E T \in ThreadIdArgs, w \in WorkspaceArgs : CreateAgentRuntime(T, w, Undefined)
    \/ \E c \in CallIds, ok \in BOOLEAN : CreateAgentRuntimeResume(c, ok)
    \/ \E T \in Threads : DeleteThreadCheckpoint(T)

Spec == Init /\ [][Next]_vars

\* createAgentRuntime alone, over every argument and every configuration
InitCreate ==
    /\ InitRuntime
    /\ InitPool
    /\ InitWorkspaces
    /\ mcpReachable = Servers
    /\ files = {}
    /\ apiKey \in {Undefined, "", "sk-1"}
    /\ userModels \in {<<>>, <<UserModelM1(FALSE)>>, <<UserModelM1(TRUE)>>}
    /\ storeDefaultModel \in {Null, "m1"}

NextCreate ==
    \/ \E T \in ThreadIdArgs, w \in WorkspaceArgs, m \in ModelIdArgs :
           CreateAgentRuntime(T, w, m)
    \/ \E c \in CallIds, ok \in BOOLEAN : CreateAgentRuntimeResume(c, ok)

SpecCreate == InitCreate /\ [][NextCreate]_vars

\* the credential and model handlers, and createAgentRuntime with a thread id and a
\* workspace; a key saved by an earlier run may be in the configuration
InitModels ==
    /\ InitRuntime
    /\ InitPool
    /\ InitWorkspaces
    /\ mcpReachable = Servers
    /\ files = {}
    /\ apiKey \in {Undefined, "", "sk-1"}
    /\ userModels = <<>>
    /\ storeDefaultModel = Null

NextModels ==
    \/ \E key \in ApiKeyArgs : ModelsSetApiKey(key)
    \/ ModelsDeleteApiKey
    \/ ModelsGetApiKey
    \/ ModelsHasApiKey
    \/ ModelsGetDefault
    \/ \E m \in SetDefaultArgs : ModelsSetDefault(m)
    \/ \E model \in UserModelArgs : ModelsAddModel(model)
    \/ \E m \in ModelIds : ModelsDeleteModel(m)
    \/ \E m \in ModelIdArgsWide : CreateAgentRuntime("t1", "/ws", m)
    \/ \E c \in CallIds, ok \in BOOLEAN : CreateAgentRuntimeResume(c, ok)

SpecModels == InitModels /\ [][NextModels]_vars

\* the tool pool and createAgentRuntime with valid arguments and configuration; each
\* configured server can or cannot be reached
InitMCPPool ==
    /\ InitRuntime
    /\ InitPool
    /\ InitWorkspaces
    /\ mcpReachable \in SUBSET Servers
    /\ files = {}
    /\ apiKey = "sk-1"
    /\ userModels = <<UserModelM1(TRUE)>>
    /\ storeDefaultModel = Null

NextMCP ==
    \/ InitMCP
    \/ \E c \in CallIds, ok \in BOOLEAN : InitMCPResume(c, ok)
    \/ CloseMCP
    \/ \E c \in CallIds, ok \in BOOLEAN : CloseMCPResume(c, ok)
    \/ \E T \in Threads, m \in ModelIdArgs : CreateAgentRuntime(T, "/ws", m)
    \/ \E c \in CallIds, ok \in BOOLEAN : CreateAgentRuntimeResume(c, ok)

SpecMCP == InitMCPPool /\ [][NextMCP]_vars

\* the virtual paths given to the read handlers
VirtualPaths ==
    { <<>>,
      JoinSegments(<< <<"f">> >>),
      <<Slash>> \o JoinSegments(<< <<"f">> >>),
      JoinSegments(<< <<Dot>>, <<"f">> >>),
      JoinSegments(<< <<"src">> >>),
      <<Slash>> \o JoinSegments(<< <<"src">>, <<"main">> >>),
      JoinSegments(<< <<"missing">> >>),
      JoinSegments(<< <<"src">>, DotDot, <<"f">> >>),
      JoinSegments(<< DotDot, <<"ws">>, <<"f">> >>),
      JoinSegments(<< DotDot, <<"f">> >>),
      JoinSegments(<< DotDot >>),
      JoinSegments(<< DotDot, <<"out">>, <<"secret">> >>),
      <<Slash>> \o JoinSegments(<< DotDot, <<"out">>, <<"secret">> >>),
      JoinSegments(<< DotDot, <<"ws", "-other">>, <<"f">> >>),
      JoinSegments(<< DotDot, <<"ws", "-other">>, <<"missing">> >>),
      JoinSegments(<< <<"link">> >>),
      FileSecret }

\* the (thread id, virtual path) arguments of the read handlers; t1 is bound to /a/ws,
\* t2 to the nested folder /a/ws/src, t3 is no thread
ReadArgs ==
    ({"t1"} \X VirtualPaths)
        \cup ({"t2"} \X
                 { JoinSegments(<< <<"main">> >>),
                   JoinSegments(<< DotDot, <<"f">> >>),
                   <<Slash>> \o JoinSegments(<< DotDot, <<"src">>, <<"main">> >>),
                   JoinSegments(<< DotDot, DotDot, <<"ws", "-other">>, <<"f">> >>) })
        \cup {<<"t3", JoinSegments(<< <<"f">> >>)>>}

\* the read handlers on two threads with a workspace, and createAgentRuntime failing
\* on its arguments or on the configuration
InitGuard ==
    /\ InitRuntime
    /\ InitPool
    /\ mcpReachable = Servers
    /\ files = {}
    /\ apiKey \in {Undefined, "sk-1"}
    /\ userModels = <<>>
    /\ storeDefaultModel = Null
    /\ threadRows = [T \in Threads |->
                        IF T = "t1"
                        THEN MetadataRow([workspacePath |-> DirWs, title |-> "T1"])
                        ELSE MetadataRow([workspacePath |-> DirSrc, title |-> Undefined])]
    /\ storeWorkspacePath = UndefinedPath

NextGuard ==
    \/ \E a \in ReadArgs : WorkspaceReadFile(a[1], a[2])
    \/ \E a \in ReadArgs : WorkspaceReadBinaryFile(a[1], a[2])
    \/ \E T \in {"", "t1"}, w \in WorkspaceArgs : CreateAgentRuntimeBounded(T, w, Undefined)

SpecGuard == InitGuard /\ [][NextGuard]_vars

\* the read handlers, workspace:loadFromDisk and createAgentRuntime while the API key
\* is set and deleted
NextErrors ==
    \/ \E a \in ReadArgs :
           /\ a[2] \in {JoinSegments(<< <<"f">> >>), DotDot,
                         JoinSegments(<< DotDot, <<"out">>, <<"secret">> >>)}
           /\ a[1] # "t2"
           /\ WorkspaceReadFile(a[1], a[2])
    \/ \E a \in ReadArgs :
           /\ a[2] \in {JoinSegments(<< <<"f">> >>), DotDot,
                         JoinSegments(<< DotDot, <<"out">>, <<"secret">> >>)}
           /\ a[1] # "t2"
           /\ WorkspaceReadBinaryFile(a[1], a[2])
    \/ \E T \in {"t1", "t3"} : WorkspaceLoadFromDisk(T, "forward")
    \/ \E T \in {"", "t1"}, w \in WorkspaceArgs : CreateAgentRuntimeBounded(T, w, Undefined)
    \/ ModelsSetApiKey("sk-1")
    \/ ModelsDeleteApiKey

SpecErrors == InitGuard /\ [][NextErrors]_vars

\* workspace:get, workspace:set, workspace:select and workspace:loadFromDisk on
\* threads with and without metadata
InitWorkspace ==
    /\ InitRuntime
    /\ InitPool
    /\ mcpReachable = Servers
    /\ files = {}
    /\ apiKey = "sk-1"
    /\ userModels = <<UserModelM1(TRUE)>>
    /\ storeDefaultModel = Null
    /\ \E row \in {NoMetadataRow,
                    MetadataRow([workspacePath |-> UndefinedPath, title |-> "T1"]),
                    MetadataRow([workspacePath |-> DirWs, title |-> "T1"])} :
          threadRows = [T \in Threads |->
                           IF T = "t1" THEN row
                           ELSE MetadataRow([workspacePath |-> DirSrc, title |-> "T2"])]
    /\ storeWorkspacePath \in {UndefinedPath, DirWsOther}

NextWorkspace ==
    \/ \E T \in Threads \cup {"t3", ""},
          newPath \in {DirWs, DirA, DirWsOther, DirA \o <<Slash, "missing">>,
                       FileSecret, NullPath} :
           WorkspaceSet(T, newPath)
    \/ \E T \in Threads \cup {"t3", ""}, selected \in {UndefinedPath, DirWs, DirWsOther} :
           WorkspaceSelect(T, selected)
    \/ \E T \in Threads \cup {"t3"}, order \in {"forward", "backward"} :
           WorkspaceLoadFromDisk(T, order)
    \/ \E T \in Threads \cup {"t3", ""} : WorkspaceGet(T)

SpecWorkspace == InitWorkspace /\ [][NextWorkspace]_vars

-----------------------------------------------------------------------------
(* Properties *)

IsAcquire(op) == op \in {"getCheckpointer", "createAgentRuntime"}

\* call c returns in this step
Returns(c) == calls[c].pc # "done" /\ calls'[c].pc = "done"

\* call c is made in this step
Called(c, op) == calls[c].pc = "idle" /\ calls'[c].op = op

\* the savers of thread T that are initialized and on which close() was never called
OpenSavers(T) == {h \in Handles : savers[h].thread = T /\ savers[h].state = "open"}

\* the getCheckpointer calls for thread T that are suspended in initialize()
SuspendedInInitialize(T) ==
    {c \in CallIds : /\ calls[c].op = "getCheckpointer"
                     /\ calls[c].threadId = T
                     /\ calls[c].pc = "awaitInitialize"}

\* C1: whenever two getCheckpointer(T) calls overlap, both suspended in initialize(),
\* a single SqlJsSaver has been constructed and is being initialized for T, and both
\* calls hold that one saver
C1_OverlappingAcquireOneSaver ==
    \A T \in Threads :
        Cardinality(SuspendedInInitialize(T)) >= 2 =>
            /\ Cardinality({calls[c].cp : c \in SuspendedInInitialize(T)}) = 1
            /\ Cardinality({h \in Handles : savers[h].thread = T
                                            /\ savers[h].state = "initializing"}) = 1

\* C2: no getCheckpointer / createAgentRuntime call returns a saver on which close()
\* has been started or has completed
C2_NoUseAfterRelease ==
    [][\A c \in CallIds :
          (Returns(c) /\ IsAcquire(calls'[c].op)) =>
              savers'[calls'[c].cp].state = "open"]_vars

\* C3: at most one open saver per thread id in every state, and an acquire for a thread
\* whose saver is cached returns the cached saver and constructs no new one
C3_OneOpenHandlePerThread ==
    [][/\ \A T \in Threads : Cardinality(OpenSavers(T))' <= 1
       /\ \A c \in CallIds :
             (/\ calls[c].pc = "idle"
              /\ IsAcquire(calls'[c].op)
              /\ calls'[c].pc # "threw"
              /\ checkpointers[calls'[c].threadId] # NoHandle) =>
                 /\ calls'[c].pc = "done"
                 /\ calls'[c].cp = checkpointers[calls'[c].threadId]
                 /\ savers' = savers]_vars

\* C4: when closeRuntime returns, close() has completed on every saver that was in the
\* cache when it was called, and the cache is empty
C4_CloseRuntimeWaitsAndClears ==
    [][\A c \in CallIds :
          (Returns(c) /\ calls'[c].op = "closeRuntime") =>
              /\ \A h \in calls'[c].closePromises : savers'[h].state = "closed"
              /\ checkpointers' = EmptyCache]_vars

\* closeRuntime has returned after closing the savers of two threads
C4_Witness ==
    \E c \in CallIds :
        /\ calls[c].op = "closeRuntime"
        /\ calls[c].pc = "done"
        /\ Cardinality(calls[c].closePromises) = 2
        /\ \A h \in calls[c].closePromises : savers[h].state = "closed"
        /\ checkpointers = EmptyCache

\* C5: when closeCheckpointer(T) completes for a thread that had a cached saver, that
\* saver is closed and the cache has no entry for T; and a getCheckpointer(T) made
\* while the cache has no entry for T constructs a saver never used before and starts
\* initializing it
C5_ReleaseClosesAndEvicts ==
    [][\A c \in CallIds :
          /\ (Returns(c) /\ calls'[c].op = "closeCheckpointer" /\ calls[c].cp # NoHandle) =>
                 /\ savers'[calls[c].cp].state = "closed"
                 /\ checkpointers'[calls[c].threadId] = NoHandle
          /\ (Called(c, "getCheckpointer") /\ checkpointers[calls'[c].threadId] = NoHandle) =>
                 /\ calls'[c].pc = "awaitInitialize"
                 /\ savers[calls'[c].cp].state = "unused"
                 /\ savers'[calls'[c].cp].state = "initializing"]_vars

\* closeCheckpointer(T) has closed the cached saver of T and a later getCheckpointer(T)
\* has opened another one
C5_Witness ==
    \E c, d \in CallIds :
        /\ c < d
        /\ calls[c].op = "closeCheckpointer" /\ calls[c].pc = "done"
        /\ calls[c].cp # NoHandle
        /\ savers[calls[c].cp].state = "closed"
        /\ calls[d].op = "getCheckpointer" /\ calls[d].pc = "done"
        /\ calls[d].threadId = calls[c].threadId
        /\ calls[d].cp # calls[c].cp
        /\ savers[calls[d].cp].state = "open"

\* C6: closeCheckpointer(T) called while the cache has no entry for T completes at once
\* without error, calls close() on no saver and leaves the cache unchanged
C6_ReleaseWithoutHandleIsNoOp ==
    [][\A c \in CallIds :
          (Called(c, "closeCheckpointer") /\ checkpointers[calls'[c].threadId] = NoHandle) =>
              /\ calls'[c].pc = "done"
              /\ calls'[c].err = ""
              /\ calls'[c].cp = NoHandle
              /\ savers' = savers
              /\ checkpointers' = checkpointers]_vars

\* a thread was released twice in a row: the first call closed its saver, the second
\* found no entry and completed without error
C6_Witness ==
    \E c \in CallIds :
        /\ c + 1 \in CallIds
        /\ calls[c].op = "closeCheckpointer" /\ calls[c].pc = "done"
        /\ calls[c].cp # NoHandle
        /\ calls[c + 1].op = "closeCheckpointer" /\ calls[c + 1].pc = "done"
        /\ calls[c + 1].threadId = calls[c].threadId
        /\ calls[c + 1].cp = NoHandle
        /\ calls[c + 1].err = ""

\* C7: the store file of a thread is never removed while an open saver of that thread
\* is in the cache
C7_NoDeleteWhileHandleOpen ==
    [][\A T \in Threads :
          (getThreadCheckpointPath(T) \in files /\ getThreadCheckpointPath(T) \notin files') =>
              ~(checkpointers[T] # NoHandle /\ savers[checkpointers[T]].state = "open")]_vars

\* C8: every deleteThreadCheckpoint(T) call completes without error, whether or not
\* the file of T exists; afterwards the file of T is absent and the other files are
\* as before
C8_DeleteIsIdempotent ==
    [][\A c \in CallIds :
          Called(c, "deleteThreadCheckpoint") =>
              LET path == getThreadCheckpointPath(calls'[c].threadId) IN
              /\ calls'[c].pc = "done"
              /\ calls'[c].err = ""
              /\ path \notin files'
              /\ files' \ {path} = files \ {path}]_vars

\* the store of a thread was deleted twice in a row without error, the store file of
\* the other thread is still on disk
C8_Witness ==
    \E c \in CallIds :
        /\ c + 1 \in CallIds
        /\ calls[c].op = "deleteThreadCheckpoint" /\ calls[c].pc = "done"
        /\ calls[c + 1].op = "deleteThreadCheckpoint" /\ calls[c + 1].pc = "done"
        /\ calls[c + 1].threadId = calls[c].threadId
        /\ calls[c + 1].err = ""
        /\ files # {}
        /\ getThreadCheckpointPath(calls[c].threadId) \notin files

\* the sessions made by createAgentRuntime for thread T whose checkpointer is open
LiveSessions(T) ==
    {c \in CallIds : /\ calls[c].op = "createAgentRuntime"
                     /\ calls[c].pc = "done"
                     /\ calls[c].threadId = T
                     /\ savers[calls[c].cp].state = "open"}

\* C9: at most one live session per thread id
C9_OneLiveSessionPerThread ==
    \A T \in Threads : Cardinality(LiveSessions(T)) <= 1

\* C10 as stated: createAgentRuntime with an empty workspacePath fails with the
\* missing-workspace error whatever the thread id, model id and configuration
C10_EmptyWorkspaceAlwaysMissingWorkspace ==
    \A c \in CallIds :
        (calls[c].op = "createAgentRuntime" /\ calls[c].workspacePath = "") =>
            /\ calls[c].pc = "threw"
            /\ calls[c].err = ErrMissingWorkspace

\* C10 amended: createAgentRuntime with an empty workspacePath and a non-empty thread
\* id fails with the missing-workspace error for every model id and configuration,
\* and opens no saver; every repetition has the same outcome
C10_EmptyWorkspaceNonEmptyThread ==
    \A c \in CallIds :
        (/\ calls[c].op = "createAgentRuntime"
         /\ calls[c].workspacePath = ""
         /\ calls[c].threadId # "") =>
            /\ calls[c].pc = "threw"
            /\ calls[c].err = ErrMissingWorkspace
            /\ calls[c].cp = NoHandle

\* with no API key configured, createAgentRuntime was called twice with the same thread
\* id and an empty workspace (missing-workspace error both times) and once with a
\* workspace (credential-missing error)
C10_Witness ==
    \E c, d, e \in CallIds :
        /\ c # d
        /\ calls[c].op = "createAgentRuntime" /\ calls[d].op = "createAgentRuntime"
        /\ calls[c].workspacePath = "" /\ calls[d].workspacePath = ""
        /\ calls[c].threadId = "t1" /\ calls[d].threadId = "t1"
        /\ calls[c].err = ErrMissingWorkspace /\ calls[d].err = ErrMissingWorkspace
        /\ calls[e].op = "createAgentRuntime" /\ calls[e].threadId = "t2"
        /\ calls[e].err = ErrCredentialMissing

\* C29: when initialize() rejects inside getCheckpointer(T), the call (and the
\* createAgentRuntime around it) throws that failure and the cache is left as it was,
\* without the failed saver; a call that finds no cache entry for T constructs a new
\* saver, and no call ever returns a saver whose initialize() rejected
C29_FailedInitializeNotCached ==
    [][\A c \in CallIds :
        /\ (calls[c].pc = "awaitInitialize" /\ calls'[c].pc = "threw") =>
              /\ calls'[c].err = ErrInitialize
              /\ checkpointers' = checkpointers
              /\ checkpointers'[calls[c].threadId] # calls[c].cp
        /\ (/\ calls[c].pc = "idle"
            /\ IsAcquire(calls'[c].op)
            /\ calls'[c].pc # "threw"
            /\ checkpointers[calls'[c].threadId] = NoHandle) =>
              /\ calls'[c].pc = "awaitInitialize"
              /\ savers[calls'[c].cp].state = "unused"
              /\ savers'[calls'[c].cp].state = "initializing"
        /\ (Returns(c) /\ IsAcquire(calls'[c].op)) =>
              savers'[calls'[c].cp].state # "initFailed"]_vars

\* getCheckpointer(t1) threw because initialize() rejected; a later getCheckpointer(t1)
\* constructed another saver, whose initialize() fulfilled, and returned it
C29_Witness ==
    \E c, d \in CallIds :
        /\ c < d
        /\ calls[c].op = "getCheckpointer" /\ calls[d].op = "getCheckpointer"
        /\ calls[c].threadId = "t1" /\ calls[d].threadId = "t1"
        /\ calls[c].pc = "threw" /\ calls[c].err = ErrInitialize
        /\ savers[calls[c].cp].state = "initFailed"
        /\ calls[d].pc = "done" /\ calls[d].cp # calls[c].cp
        /\ savers[calls[d].cp].state = "open"
        /\ checkpointers["t1"] = calls[d].cp

\* C30: createAgentRuntime called with an empty thread id, an empty workspace, no API
\* key, or neither a model id nor a default model throws the error of that test
\* unchanged, and leaves the cache, the savers and the store files as they were
C30_EarlyFailureLeavesCacheAlone ==
    [][\A c \in CallIds :
        (/\ Called(c, "createAgentRuntime")
         /\ \/ calls'[c].threadId = ""
            \/ calls'[c].workspacePath = ""
            \/ ~Truthy(apiKey)
            \/ ~Truthy(calls'[c].modelId) /\ ~Truthy(getDefaultModel)) =>
            /\ calls'[c].pc = "threw"
            /\ calls'[c].err =
                  IF calls'[c].threadId = "" THEN ErrMissingThreadId
                  ELSE IF calls'[c].workspacePath = "" THEN ErrMissingWorkspace
                  ELSE IF ~Truthy(apiKey) THEN ErrCredentialMissing
                  ELSE ErrNoDefaultModel
            /\ checkpointers' = checkpointers
            /\ savers' = savers
            /\ files' = files]_vars

\* createAgentRuntime for t1 returned a session; after that a call without a model id
\* threw the no-default-model error and the cache still holds the one saver of t1
C30_Witness ==
    /\ calls[1].op = "createAgentRuntime" /\ calls[1].pc = "done"
    /\ calls[1].threadId = "t1"
    /\ calls[2].op = "createAgentRuntime" /\ calls[2].pc = "threw"
    /\ calls[2].threadId = "t1" /\ calls[2].workspacePath = "/ws"
    /\ calls[2].err = ErrNoDefaultModel
    /\ checkpointers["t1"] = calls[1].cp
    /\ Cardinality(Constructed) = 1

-----------------------------------------------------------------------------
(* Properties of model resolution and of the credential (SpecModels) *)

\* createAgentRuntime is called as call c in this step, with a thread id and a workspace
CalledCreate(c) ==
    /\ Called(c, "createAgentRuntime")
    /\ calls'[c].threadId # ""
    /\ calls'[c].workspacePath # ""

\* the model id that the call made in this step resolves: the one supplied, else the
\* configured default
ResolvedId(c) ==
    IF Truthy(calls'[c].modelId) THEN calls'[c].modelId ELSE getDefaultModel

\* the positions of the records flagged as default
Flagged(models) == {i \in 1..Len(models) : models[i].isDefault}

\* C11: when no API key is configured, createAgentRuntime fails with the
\* credential-missing error for every model id and every model and default
\* configuration, and neither a model nor a saver is constructed
C11_NoKeyIsCredentialMissing ==
    [][\A c \in CallIds :
        (CalledCreate(c) /\ apiKey = Undefined) =>
            /\ calls'[c].pc = "threw"
            /\ calls'[c].err = ErrCredentialMissing
            /\ calls'[c].model = ""
            /\ savers' = savers]_vars

\* no key, no model record and no stored default: createAgentRuntime was called with a
\* model id and without one, and failed with the credential-missing error both times
C11_Witness ==
    /\ apiKey = Undefined /\ userModels = <<>> /\ storeDefaultModel = Null
    /\ calls[1].op = "models:deleteApiKey"
    /\ \E c, d \in CallIds :
        /\ calls[c].op = "createAgentRuntime" /\ calls[d].op = "createAgentRuntime"
        /\ calls[c].modelId = "m1" /\ calls[d].modelId = Undefined
        /\ calls[c].err = ErrCredentialMissing /\ calls[d].err = ErrCredentialMissing

\* C12: with an API key configured and no model id supplied, createAgentRuntime
\* resolves the id of the first record flagged as default, else the stored default
\* setting, and fails with the no-default-model error exactly when there is neither
C12_DefaultResolution ==
    [][\A c \in CallIds :
        (CalledCreate(c) /\ Truthy(apiKey) /\ calls'[c].modelId = Undefined) =>
            LET flagged == Flagged(userModels)
                first == CHOOSE i \in flagged : \A j \in flagged : i <= j IN
            IF flagged # {}
            THEN /\ calls'[c].err = ""
                 /\ calls'[c].model = ProviderModelId(userModels[first].id)
            ELSE IF storeDefaultModel \notin {Null, ""}
            THEN /\ calls'[c].err = ""
                 /\ calls'[c].model = ProviderModelId(storeDefaultModel)
            ELSE /\ calls'[c].pc = "threw"
                 /\ calls'[c].err = ErrNoDefaultModel]_vars

\* createAgentRuntime without a model id failed with the no-default-model error, then
\* a default record was added, then the same call resolved that record
C12_Witness ==
    /\ calls[1].op = "createAgentRuntime" /\ calls[1].modelId = Undefined
    /\ calls[1].err = ErrNoDefaultModel
    /\ calls[2].op = "models:addModel" /\ calls[2].userModel.isDefault
    /\ calls[2].userModel.modelId = "provider-x"
    /\ calls[3].op = "createAgentRuntime" /\ calls[3].modelId = Undefined
    /\ calls[3].err = "" /\ calls[3].model = "provider-x"

CredentialObservers == {"models:getApiKey", "models:hasApiKey", "createAgentRuntime"}

\* what the caller of call c sees: the value returned and the error thrown
Outcome(c) == <<calls[c].result, calls[c].err>>

\* C14: every observer of the credential tells "no API key configured" from "API key
\* set to the empty string": two calls of the same observer with the same arguments,
\* one in each state, have different outcomes
C14_AbsentAndEmptyKeyDistinct ==
    \A c, d \in CallIds :
        (/\ calls[c].op \in CredentialObservers
         /\ calls[c].pc \in {"done", "threw"}
         /\ calls[d].pc \in {"done", "threw"}
         /\ calls[d].op = calls[c].op
         /\ calls[d].modelId = calls[c].modelId
         /\ calls[c].apiKey = Undefined
         /\ calls[d].apiKey = "") =>
            Outcome(c) # Outcome(d)

\* C20: after models:setDefault(m) a record is flagged as default if and only if its id
\* is m, whatever was flagged before: the set goes from its old flags to the new ones
\* in the one step of the handler, the records and their order are otherwise unchanged,
\* and at most one record is flagged afterwards
C20_SetDefaultIsExclusive ==
    [][\A c \in CallIds :
        Called(c, "models:setDefault") =>
            /\ Len(userModels') = Len(userModels)
            /\ \A i \in 1..Len(userModels) :
                /\ userModels'[i].id = userModels[i].id
                /\ userModels'[i].modelId = userModels[i].modelId
                /\ userModels'[i].isDefault <=> (userModels'[i].id = calls'[c].modelId)
            /\ Cardinality(Flagged(userModels')) <= 1]_vars

\* two records were added, both flagged as default; models:setDefault("m1") has just run
\* and m1 is the only flagged record
C20_Witness ==
    /\ calls[1].op = "models:addModel" /\ calls[1].userModel.isDefault
    /\ calls[2].op = "models:addModel" /\ calls[2].userModel.isDefault
    /\ calls[1].userModel.id # calls[2].userModel.id
    /\ calls[3].op = "models:setDefault" /\ calls[3].modelId = "m1"
    /\ Len(userModels) = 2
    /\ \A i \in 1..2 : userModels[i].isDefault <=> (userModels[i].id = "m1")

\* C21: at most one record of the model set is flagged as default
C21_AtMostOneDefault == Cardinality(Flagged(userModels)) <= 1

\* the ids of the records are pairwise different
UniqueIds(models) ==
    \A i, j \in 1..Len(models) : models[i].id = models[j].id => i = j

\* the positions of the records with this id
WithId(models, id) == {i \in 1..Len(models) : models[i].id = id}

\* C22: no two records of the model set share an id; models:addModel with an id of the
\* set replaces that record where it is and leaves the other records and the length
\* alone, with a new id it appends the record; models:deleteModel(id) removes the
\* records with that id, keeps the others in their order, and changes nothing when no
\* record has that id
C22_AddReplacesDeleteRemoves ==
    [][/\ UniqueIds(userModels')
       /\ \A c \in CallIds :
            Called(c, "models:addModel") =>
                LET model == calls'[c].userModel
                    at == WithId(userModels, model.id) IN
                IF at # {}
                THEN /\ Len(userModels') = Len(userModels)
                     /\ \A i \in 1..Len(userModels) :
                            userModels'[i] = IF i \in at THEN model ELSE userModels[i]
                ELSE userModels' = userModels \o <<model>>
       /\ \A c \in CallIds :
            Called(c, "models:deleteModel") =>
                LET id == calls'[c].modelId
                    Other(m) == m.id # id IN
                /\ WithId(userModels', id) = {}
                /\ userModels' = SelectSeq(userModels, Other)
                /\ WithId(userModels, id) = {} => userModels' = userModels]_vars

\* m1 and m2 were added, then m1 was added again with another provider id: the set
\* still has two records, the new m1 at the first position and m2 at the second
C22_Witness ==
    /\ \A c \in CallIds : calls[c].op = "models:addModel"
    /\ calls[1].userModel.id = "m1" /\ calls[2].userModel.id = "m2"
    /\ calls[3].userModel.id = "m1"
    /\ calls[3].userModel.modelId # calls[1].userModel.modelId
    /\ Len(userModels) = 2
    /\ userModels[1] = calls[3].userModel
    /\ userModels[2] = calls[2].userModel

-----------------------------------------------------------------------------
(* Properties of the sessions and of the MCP tool pool (SpecMCP) *)

\* the createAgentRuntime calls that have returned a session
Sessions == {c \in CallIds : calls[c].op = "createAgentRuntime" /\ calls[c].pc = "done"}

\* C15: every session returned by createAgentRuntime requires approval for the
\* execute tool, whatever the arguments and the state of the tool pool
C15_ExecuteRequiresApproval ==
    \A c \in Sessions : "execute" \in calls[c].interruptOn

\* two sessions were returned, one built while the pool had no tools and one while it
\* had tools, and both require approval for execute
C15_Witness ==
    \E c, d \in Sessions :
        /\ ~calls[c].tools.defined /\ calls[d].tools.defined
        /\ "execute" \in calls[c].interruptOn /\ "execute" \in calls[d].interruptOn

\* C16: createAgentRuntime with valid arguments and configuration is never failed by
\* the tool pool: it throws only when the saver cannot be initialized, and the session
\* it returns carries the pool's tool list of that moment, and no tools option when
\* that list is empty
C16_SessionCarriesCurrentTools ==
    [][\A c \in CallIds :
        (calls'[c].op = "createAgentRuntime" /\ calls'[c].pc # calls[c].pc) =>
            /\ calls'[c].pc = "threw" => calls'[c].err = ErrInitialize
            /\ calls'[c].pc = "done" =>
                /\ calls'[c].tools.defined <=> (mcpTools # {})
                /\ calls'[c].tools.list = mcpTools]_vars

\* initMCP failed to connect and emptied the pool; createAgentRuntime, called after
\* that, returned a session without a tools option
C16_Witness ==
    \E c \in Sessions, d \in CallIds :
        /\ d < c
        /\ calls[d].op = "initMCP" /\ calls[d].pc = "done"
        /\ mcpClients[calls[d].client] = "failed"
        /\ ~calls[c].tools.defined
        /\ calls[c].err = ""

\* C17: when exactly one of the two configured servers can be reached, initMCP returns
\* without raising and leaves the tools of the reachable server, a non-empty list
C17_ReachableServerToolsKept ==
    [][\A c \in CallIds :
        (/\ calls[c].op = "initMCP"
         /\ calls[c].pc = "awaitGetTools"
         /\ calls'[c].pc # "awaitGetTools"
         /\ mcpClients[calls[c].client] = "created"
         /\ Cardinality(mcpReachable) = 1) =>
            /\ calls'[c].pc = "done"
            /\ mcpTools' = UNION {ToolsOf(server) : server \in mcpReachable}
            /\ mcpTools' # {}]_vars

\* C18: a closeMCP call that ends, ends by returning, also when close() of the client
\* fails, and leaves the pool without a client and without tools
C18_CloseMCPReturnsWithEmptyPool ==
    [][\A c \in CallIds :
        (/\ calls'[c].op = "closeMCP"
         /\ calls[c].pc \notin {"done", "threw"}
         /\ calls'[c].pc \in {"done", "threw"}) =>
            /\ calls'[c].pc = "done"
            /\ mcpClient' = NoClient
            /\ mcpTools' = {}]_vars

\* the pool clients that have been created and not closed
LiveClients == {k \in Clients : mcpClients[k] \notin {"unused", "closed"}}

\* C19: at most one pool client that has been created and not closed exists
C19_AtMostOneLiveClient == Cardinality(LiveClients) <= 1

-----------------------------------------------------------------------------
(* Properties of the workspace file handlers (SpecGuard) *)

\* the calls of the two read handlers that found a workspace for their thread
Reads ==
    {c \in CallIds : /\ calls[c].op \in {"workspace:readFile", "workspace:readBinaryFile"}
                     /\ TruthyPath(calls[c].root)}

\* the absolute path that root R joined with virtual path P names, "." and ".."
\* segments resolved
Target(R, P) ==
    pathResolve(R \o <<Slash>> \o (IF P # <<>> /\ P[1] = Slash THEN Tail(P) ELSE P))

\* the path is the root or a descendant of the root, segment by segment
InsideBySegments(path, root) ==
    LET r == Split(root)
        t == Split(path) IN
    Len(r) <= Len(t) /\ SubSeq(t, 1, Len(r)) = r

HasDotDot(P) == \E i \in 1..Len(Split(P)) : Split(P)[i] = DotDot

\* the call was answered with the access-denied result, before any file system call
Denied(c) ==
    /\ ~calls[c].result.success
    /\ calls[c].result.error = ErrAccessDenied
    /\ calls[c].fsOps = <<>>

\* C23: a read whose virtual path has ".." segments and resolves outside the workspace
\* root is answered with the access-denied result and makes no stat and no read
C23_DotDotEscapeDenied ==
    \A c \in Reads :
        (/\ HasDotDot(calls[c].path)
         /\ ~InsideBySegments(Target(calls[c].root, calls[c].path),
                              pathResolve(calls[c].root))) =>
            Denied(c)

\* C24: a read is denied whenever the canonical target, symbolic links followed, is
\* neither the workspace root nor a descendant of it segment by segment
C24_OutsideTargetDenied ==
    \A c \in Reads :
        ~InsideBySegments(RealPath(Target(calls[c].root, calls[c].path)),
                          RealPath(calls[c].root)) =>
            Denied(c)

\* C25: a read whose path resolves inside the workspace root is not denied; the path
\* given to stat and readFile is the root joined with the virtual path, resolved; and
\* when a file is there the read succeeds with its content, size and time
C25_InsidePathIsRead ==
    \A c \in Reads :
        LET target == Target(calls[c].root, calls[c].path)
            result == calls[c].result IN
        InsideBySegments(target, pathResolve(calls[c].root)) =>
            /\ result.error # ErrAccessDenied
            /\ calls[c].fsOps # <<>>
            /\ \A i \in 1..Len(calls[c].fsOps) : calls[c].fsOps[i].path = target
            /\ (Exists(target) /\ ~fsStat(target).isDirectory) =>
                  /\ result.success
                  /\ result.content =
                        IF calls[c].op = "workspace:readBinaryFile"
                        THEN toBase64(fsReadFile(target)) ELSE fsReadFile(target)
                  /\ result.size = fsStat(target).size
                  /\ result.modified_at = fsStat(target).mtime
                  /\ calls[c].fsOps = <<[fn |-> "stat", path |-> target],
                                        [fn |-> "readFile", path |-> target]>>

\* "/src/main" was read as text and "src/../f" as binary in the workspace /a/ws, both
\* with success
C25_Witness ==
    \E c, d \in Reads :
        /\ calls[c].op = "workspace:readFile" /\ calls[c].root = DirWs
        /\ calls[c].path = <<Slash>> \o JoinSegments(<< <<"src">>, <<"main">> >>)
        /\ calls[c].result.success
        /\ calls[c].result.content = "text of ws/src/main"
        /\ calls[d].op = "workspace:readBinaryFile" /\ calls[d].root = DirWs
        /\ calls[d].path = JoinSegments(<< <<"src">>, DotDot, <<"f">> >>)
        /\ calls[d].result.success
        /\ calls[d].fsOps[2].path = DirWs \o <<Slash, "f">>

\* the condition under which call c fails, told from its arguments and from what it
\* read: a missing thread id, a missing workspace, a missing credential, a missing
\* default model, a path outside the workspace; "none" otherwise
Condition(c) ==
    IF calls[c].op = "createAgentRuntime"
    THEN IF calls[c].threadId = "" THEN "missing thread id"
         ELSE IF calls[c].workspacePath = "" THEN "missing workspace"
         ELSE IF ~Truthy(calls[c].apiKey) THEN "missing credential"
         ELSE IF ~Truthy(calls[c].modelId) /\ ~Truthy(getDefaultModel)
         THEN "missing default model"
         ELSE "none"
    ELSE IF calls[c].op = "workspace:loadFromDisk"
    THEN IF ~TruthyPath(calls[c].root) THEN "missing workspace" ELSE "none"
    ELSE IF calls[c].op \in {"workspace:readFile", "workspace:readBinaryFile"}
    THEN IF ~TruthyPath(calls[c].root) THEN "missing workspace"
         ELSE IF ~InsideBySegments(Target(calls[c].root, calls[c].path),
                                   pathResolve(calls[c].root))
         THEN "outside workspace"
         ELSE "none"
    ELSE "none"

\* C28: two calls that fail under different conditions (missing thread id, missing
\* workspace, missing credential, missing default model, path outside the workspace)
\* never end with the same error
C28_ErrorsDistinguishable ==
    \A c, d \in UsedCalls :
        (/\ Condition(c) # "none"
         /\ Condition(d) # "none"
         /\ Condition(c) # Condition(d)) =>
            calls[c].err # calls[d].err

\* createAgentRuntime failed for the missing API key and, the key set, for the
\* missing default model, with different errors
C28_Witness ==
    \E c, d \in UsedCalls :
        /\ Condition(c) = "missing credential" /\ calls[c].pc = "threw"
        /\ Condition(d) = "missing default model" /\ calls[d].pc = "threw"
        /\ calls[c].err # "" /\ calls[d].err # ""
        /\ calls[c].err # calls[d].err

-----------------------------------------------------------------------------
(* Properties of the workspace listing and of the workspace binding (SpecWorkspace) *)

\* the calls of workspace:loadFromDisk that listed a folder
Loads ==
    {c \in CallIds : calls[c].op = "workspace:loadFromDisk" /\ calls[c].result.success}

\* the path of a disk entry below the root, relative to the root
RelativeTo(root, path) == SubSeq(path, Len(root) + 2, Len(path))

\* no segment of the relative path starts with "." or is "node_modules"
NoSegmentExcluded(relPath) ==
    \A i \in 1..Len(Split(relPath)) :
        LET name == Split(relPath)[i] IN name[1] # Dot /\ name # NodeModules

\* the disk entries below the root that the listing is to show
Shown(root) ==
    {e \in Disk : /\ startsWith(e.path, root \o <<Slash>>)
                  /\ NoSegmentExcluded(RelativeTo(root, e.path))}

\* C26: workspace:loadFromDisk lists exactly the entries below the workspace folder
\* none of whose path segments starts with "." or is "node_modules", each once and
\* with a path rooted at "/", and a directory before everything below it
C26_ListingExcludesHiddenAndNodeModules ==
    \A c \in Loads :
        LET root == calls[c].root
            list == calls[c].result.files IN
        /\ {list[i].path : i \in 1..Len(list)} =
              {<<Slash>> \o RelativeTo(root, e.path) : e \in Shown(root)}
        /\ Len(list) = Cardinality(Shown(root))
        /\ \A i \in 1..Len(list) :
              /\ list[i].path[1] = Slash
              /\ list[i].is_dir =
                    (DiskEntry(root \o list[i].path).kind = "dir")
        /\ \A i, j \in 1..Len(list) :
              (list[i].is_dir /\ startsWith(list[j].path, list[i].path \o <<Slash>>))
                  => i < j

\* the folder /a, bound to a thread by workspace:set, was listed: /ws, /ws/src and
\* /ws/src/main are in the list, nothing of .git and node_modules is
C26_Witness ==
    \E c \in Loads :
        LET list == calls[c].result.files
            paths == {list[i].path : i \in 1..Len(list)} IN
        /\ calls[c].root = DirA
        /\ <<Slash, "ws", Slash, "src", Slash, "main">> \in paths
        /\ <<Slash, "ws", Slash, "src">> \in paths
        /\ <<Slash, "ws", Slash, "link">> \in paths
        /\ <<Slash, "ws", Slash, Dot, "git">> \notin paths
        /\ <<Slash, "ws", Slash, "src", Slash, Dot, "hidden">> \notin paths
        /\ <<Slash, "ws", Slash>> \o NodeModules \o <<Slash, "mod">> \notin paths
        /\ Len(list) = 9

\* call c is workspace:set or workspace:select with a thread id
CalledBind(c) ==
    /\ Called(c, "workspace:set") \/ Called(c, "workspace:select")
    /\ Truthy(calls'[c].threadId)

\* call c writes the metadata of its thread: the thread exists and, for
\* workspace:select, a folder was chosen
Writes(c) ==
    /\ HasThread(calls'[c].threadId)
    /\ calls'[c].op = "workspace:select" => calls'[c].path # UndefinedPath

\* C27: workspace:set and workspace:select with a thread id change the workspacePath
\* field of that thread's metadata and nothing else: the other field of the metadata,
\* the rows of the other threads and the global workspacePath stay, and nothing is
\* written for a thread that does not exist
C27_OnlyWorkspacePathOfThreadChanges ==
    [][\A c \in CallIds :
          CalledBind(c) =>
              LET T == calls'[c].threadId IN
              /\ storeWorkspacePath' = storeWorkspacePath
              /\ \A U \in Threads \ {T} : threadRows'[U] = threadRows[U]
              /\ IF Writes(c)
                 THEN /\ threadRows'[T].hasMetadata
                      /\ JSONParse(threadRows'[T].metadata).workspacePath = calls'[c].path
                      /\ JSONParse(threadRows'[T].metadata).title = ThreadMetadata(T).title
                 ELSE threadRows' = threadRows]_vars

\* workspace:set bound thread t1, whose metadata had the title "T1" and the folder
\* /a/ws, to /a/ws-other; the title is kept; a workspace:set for t3, which is no
\* thread, returned null
C27_Witness ==
    \E c, d \in UsedCalls :
        /\ calls[c].op = "workspace:set" /\ calls[c].threadId = "t1"
        /\ calls[c].path = DirWsOther
        /\ ThreadMetadata("t1") = [workspacePath |-> DirWsOther, title |-> "T1"]
        /\ ThreadMetadata("t2") = [workspacePath |-> DirSrc, title |-> "T2"]
        /\ calls[d].op = "workspace:set" /\ calls[d].threadId = "t3"
        /\ calls[d].result = NullPath

-----------------------------------------------------------------------------
(* Properties of the threads' independence and of the closing of savers (Spec) *)

\* call c of getCheckpointer or closeCheckpointer takes a step: it is made, or it goes
\* on after its await
StepsOnThread(c) ==
    /\ calls'[c] # calls[c]
    /\ calls'[c].op \in {"getCheckpointer", "closeCheckpointer"}

C33_NoOpenSaverDropped ==
    [][\A c \in CallIds :
          (Returns(c) /\ calls'[c].op = "closeRuntime") =>
              \A T \in Threads :
                  checkpointers[T] # NoHandle =>
                      savers'[checkpointers[T]].state = "closed"]_vars

\* C34: close() is called at most once on every saver
C34_CloseCalledAtMostOnce ==
    \A h \in Handles : savers[h].closeCalls <= 1

\* call c of closeCheckpointer or closeRuntime ends in this step with the error of a
\* close() that failed
CloseFails(c) ==
    /\ calls[c].pc # "threw"
    /\ calls'[c].pc = "threw"
    /\ calls'[c].op \in {"closeCheckpointer", "closeRuntime"}

\* C35: when closeCheckpointer or closeRuntime ends with the error of a failed close(),
\* the cache holds no saver on which close() was called
C35_FailedCloseEvicts ==
    [][\A c \in CallIds :
          CloseFails(c) =>
              \A h \in checkpointersValues(checkpointers') : savers'[h].closeCalls = 0]_vars

-----------------------------------------------------------------------------
(* Properties of the global workspace setting (SpecWorkspace) *)

\* call c of one of the three handlers of the workspace binding is made in this step
CalledWorkspace(c) ==
    \/ Called(c, "workspace:get")
    \/ Called(c, "workspace:set")
    \/ Called(c, "workspace:select")

\* C32: the global workspacePath setting is used only without a thread id: workspace:get
\* with a thread id returns the workspacePath of that thread's metadata, or null when
\* there is none, whatever the global setting holds, and leaves the setting alone, as
\* workspace:set and workspace:select with a thread id do; without a thread id the
\* three handlers leave the metadata of every thread alone
C32_GlobalSettingOnlyWithoutThreadId ==
    [][\A c \in CallIds :
          CalledWorkspace(c) =>
              IF Truthy(calls'[c].threadId)
              THEN /\ storeWorkspacePath' = storeWorkspacePath
                   /\ calls'[c].op = "workspace:get" =>
                         calls'[c].result =
                             IF TruthyPath(ThreadMetadata(calls'[c].threadId).workspacePath)
                             THEN ThreadMetadata(calls'[c].threadId).workspacePath
                             ELSE NullPath
              ELSE threadRows' = threadRows]_vars

\* workspace:set without a thread id put /a in the global setting, the rows of the
\* threads as before, and a later workspace:get for the thread t1, which has no
\* workspace, returned null and not /a
C32_Witness ==
    \E c, d \in UsedCalls :
        /\ c < d /\ \A e \in UsedCalls : e <= d
        /\ calls[c].op = "workspace:set" /\ calls[c].threadId = ""
        /\ calls[c].path = DirA
        /\ storeWorkspacePath = DirA
        /\ calls[d].op = "workspace:get" /\ calls[d].threadId = "t1"
        /\ calls[d].result = NullPath
        /\ ~TruthyPath(ThreadMetadata("t1").workspacePath)
        /\ ThreadMetadata("t2").workspacePath = DirSrc

-----------------------------------------------------------------------------
(* Properties of the MCP tool pool under overlapping initMCP and closeMCP (SpecMCP) *)

\* C36: in every state a non-empty tool list of the pool comes with a client in the
\* pool that has not been closed
C36_ToolsImplyOpenClient ==
    mcpTools # {} => (mcpClient # NoClient /\ mcpClients[mcpClient] # "closed")

-----------------------------------------------------------------------------
(* Properties of the default model after models:setDefault and models:deleteModel *)
(* (SpecModels)                                                                   *)

\* C37: getDefaultModel() and the models:getDefault handler return the same value in
\* every state, and after models:setDefault(m) with a non-empty m both return m,
\* whether or not a record has the id m
C37_SetDefaultIsReadBack ==
    [][/\ getDefaultHandler' = getDefaultModel'
       /\ \A c \in CallIds :
             (Called(c, "models:setDefault") /\ Truthy(calls'[c].modelId)) =>
                 /\ getDefaultModel' = calls'[c].modelId
                 /\ getDefaultHandler' = calls'[c].modelId]_vars

\* after models:addModel added m1 as the default, models:setDefault("m3"), which names no record, was
\* called and the models:getDefault call after it returned "m3", as getDefaultModel()
\* does
C37_Witness ==
    \E e, c, d \in CallIds :
        /\ e < c /\ c < d
        /\ calls[e].op = "models:addModel"
        /\ calls[e].userModel.id = "m1" /\ calls[e].userModel.isDefault
        /\ calls[c].op = "models:setDefault" /\ calls[c].modelId = "m3"
        /\ calls[d].op = "models:getDefault" /\ calls[d].result = "m3"
        /\ getDefaultModel = "m3"
        /\ FindById(userModels, "m1") # 0
        /\ FindById(userModels, "m3") = 0

\* C38: when models:deleteModel(m) removes the record that getDefaultModel() names,
\* getDefaultModel() does not return m afterwards
C38_DeletedDefaultNotReturned ==
    [][\A c \in CallIds :
          (/\ Called(c, "models:deleteModel")
           /\ FindById(userModels, calls'[c].modelId) # 0
           /\ getDefaultModel = calls'[c].modelId) =>
              getDefaultModel' # calls'[c].modelId]_vars

====
